---- MODULE Spec2Model ----
(***************************************************************************)
(* The OpenAI Realtime bridge of eittel.models.openai: the inbound         *)
(* reconstruction state machine of OpenAIRealtimeConnection.receive(), the *)
(* event router, and the outbound operations send_history / send_content.  *)
(*                                                                         *)
(* Python values are modelled as follows.                                  *)
(*   - a dict is a function (record); dict.get(k, d) is Get(d, k, default) *)
(*   - a short str (an id, a name, a code) is a string; None is NoneV      *)
(*   - a text (arguments, deltas, transcripts) is a sequence of fragments, *)
(*     so that + is \o; None is NoneS                                      *)
(*   - an Optional[bool] flag of LlmResponse is a BOOLEAN, FALSE standing  *)
(*     for "not set" (the code only ever sets True)                        *)
(***************************************************************************)
EXTENDS Integers, Sequences, FiniteSets, TLC

VARIABLES
  pending,    \* self._pending_func_calls: item id -> [name, args_buffer]
  closed,     \* self._closed
  rx,         \* the receive() generator: "open", "ended" or the exception that left it
  msg,        \* the message receive() read last from the socket
  yielded,    \* the records receive() yielded for that message, in order
  added,      \* history: item id -> the item of the output_item.added frame that opened its entry
  recvLog,    \* history: the messages read so far, each with the records yielded for it
  call,       \* the outbound operation under way or finished last, with its input
  sent,       \* the frames that operation wrote to the socket, in order
  sentFor,    \* history: for each frame of sent, the index of the history item it replays
  outcome,    \* "pending" before the operation runs, then "ok" or the exception it raised
  ws,         \* self._ws: "open", "closed_ok" (closing handshake done) or "closed_error"
  wsCloses,   \* the number of calls of self._ws.close() so far
  toYield,    \* the records of the message read last that receive() has still to yield
  delivered,  \* history: every record the consumer of receive() has been given, in order
  ret,        \* the value the operation returned ("none" before it returns)
  wire,       \* every frame written to the socket since it was opened, with its writer
  tasks,      \* the outbound operations running concurrently: the frames each has still to write
  world,      \* two connections side by side: their objects and the objects these refer to
  router      \* an OpenAIEventRouter of its own: its _handlers and the register calls made

vars == <<pending, closed, rx, msg, yielded, added, recvLog, call, sent, sentFor, outcome,
          ws, wsCloses, toYield, delivered, ret, wire, tasks, world, router>>

\* The variables of the scenarios that the operations of one connection on its
\* own leave alone.
apart == <<ret, wire, tasks, world, router>>

----------------------------------------------------------------------------
(* Bounds *)

\* The longest argument buffer (in fragments) the remote side lets a call grow to.
MaxBuf == 2

\* The number of messages the logged receive loop reads.
MaxFrames == 3

\* The size of the histories and contents the caller passes: the number of
\* items plus the number of their parts.
MaxSize == 4

----------------------------------------------------------------------------
(* Python values *)

NoneV == "None"
NoneS == <<"None">>
EmptyDict == [k \in {} |-> NoneV]
\* None where the code expects a dict (a JSON null in the place of an object).
NoneD == [none |-> TRUE]

Truthy(x) == x \notin {NoneV, ""}
TruthyText(s) == s \notin {NoneS, <<>>}

\* a or b
Or(a, b) == IF Truthy(a) THEN a ELSE b
OrText(a, b) == IF TruthyText(a) THEN a ELSE b

\* d.get(k, default)
Get(d, k, default) == IF k \in DOMAIN d THEN d[k] ELSE default

\* d[k] = v, and d.pop(k)
Put(d, k, v) == [x \in (DOMAIN d) \cup {k} |-> IF x = k THEN v ELSE d[x]]
Pop(d, k) == [x \in (DOMAIN d) \ {k} |-> d[x]]

\* Argument texts are built from three fragments: '{}', '{"q":' and '"x"}'.
EMPTYOBJ == "{}"
OPENQ == "{q:"
CLOSEX == "x}"

\* json.loads on an argument text: '{}' and '{"q":"x"}' are the documents that can
\* be spelled with the fragments; every other concatenation (the empty text
\* included) raises.
JsonLoads(s) ==
  IF s = <<EMPTYOBJ>> THEN [ok |-> TRUE, value |-> {}]
  ELSE IF s = <<OPENQ, CLOSEX>> THEN [ok |-> TRUE, value |-> {<<"q", "x">>}]
  ELSE [ok |-> FALSE, value |-> {}]

----------------------------------------------------------------------------
(* LlmResponse and types.Content *)

NoContent == [role |-> NoneV, parts |-> <<>>]

LlmResponse ==
  [content |-> NoContent, partial |-> FALSE, turn_complete |-> FALSE,
   interrupted |-> FALSE, error_code |-> NoneV, error_message |-> NoneV,
   custom_metadata |-> NoneV]

TextPart(t) == [kind |-> "text", text |-> t]
FunctionCallPart(name, args, id) ==
  [kind |-> "function_call", name |-> name, args |-> args, id |-> id]

TextResponse(role, t, partial) ==
  [LlmResponse EXCEPT !.content = [role |-> role, parts |-> <<TextPart(t)>>],
                      !.partial = partial]

\* What a handler hands back: the records, the pending map it leaves, and the
\* exception it raised ("" when it returned).
Handled(responses, p) == [responses |-> responses, pending |-> p, raised |-> ""]
Raised(p, exc) == [responses |-> <<>>, pending |-> p, raised |-> exc]

----------------------------------------------------------------------------
(* Function-call reconstruction *)

ItemKey(item) == Or(Or(Get(item, "id", NoneV), Get(item, "call_id", NoneV)), "")
EventKey(event) == Or(Or(Get(event, "item_id", NoneV), Get(event, "id", NoneV)), "")

\* _handle_output_item_added reporting the call as soon as it is opened,
\* flagged partial.
_handle_output_item_added_Emit(p, event) ==
  LET item == Get(event, "item", EmptyDict) IN
  IF Get(item, "type", NoneV) # "function_call" THEN Handled(<<>>, p)
  ELSE LET name == Or(Get(item, "name", NoneV), "")
           args_str == OrText(Get(item, "arguments", NoneS), <<EMPTYOBJ>>)
       IN Handled(<<[LlmResponse EXCEPT
                       !.content = [role |-> "model",
                                    parts |-> <<FunctionCallPart(name, {}, ItemKey(item))>>],
                       !.partial = TRUE]>>,
                  Put(p, ItemKey(item), [name |-> name, args_buffer |-> args_str]))

_handle_output_item_added(p, event) ==
  LET item == Get(event, "item", EmptyDict) IN
  IF Get(item, "type", NoneV) # "function_call" THEN Handled(<<>>, p)
  ELSE LET name == Or(Get(item, "name", NoneV), "")
           args_str == OrText(Get(item, "arguments", NoneS), <<EMPTYOBJ>>)
       IN Handled(<<>>, Put(p, ItemKey(item), [name |-> name, args_buffer |-> args_str]))

\* _handle_function_args_delta opening an entry for an id it does not know.
_handle_function_args_delta_SetDefault(p, event) ==
  LET delta == Get(event, "delta", <<>>)
      item_id == EventKey(event)
  IN IF delta = NoneS THEN Raised(p, "TypeError")
     ELSE IF item_id \in DOMAIN p
     THEN Handled(<<>>, [p EXCEPT ![item_id].args_buffer = @ \o delta])
     ELSE Handled(<<>>, Put(p, item_id, [name |-> "", args_buffer |-> delta]))

_handle_function_args_delta(p, event) ==
  LET delta == Get(event, "delta", <<>>)
      item_id == EventKey(event)
  IN IF item_id \in DOMAIN p
     THEN IF delta = NoneS THEN Raised(p, "TypeError")
          ELSE Handled(<<>>, [p EXCEPT ![item_id].args_buffer = @ \o delta])
     ELSE Handled(<<>>, p)

\* _handle_function_args_done adding the full string to the buffer.
_handle_function_args_done_Append(p, event) ==
  LET item_id == EventKey(event)
      args_str == Get(event, "arguments", <<>>)
  IN IF item_id \in DOMAIN p /\ args_str # NoneS
     THEN Handled(<<>>, [p EXCEPT ![item_id].args_buffer = @ \o args_str])
     ELSE Handled(<<>>, p)

_handle_function_args_done(p, event) ==
  LET item_id == EventKey(event)
      args_str == Get(event, "arguments", <<>>)
  IN IF item_id \in DOMAIN p /\ args_str # NoneS
     THEN Handled(<<>>, [p EXCEPT ![item_id].args_buffer = args_str])
     ELSE Handled(<<>>, p)

\* PoppedResponse with the correlation id taken from the item id first.
PoppedResponse_ItemIdFirst(entry, item) ==
  LET parsed == JsonLoads(OrText(entry.args_buffer, <<EMPTYOBJ>>))
      args == IF parsed.ok THEN parsed.value ELSE {}
      id == Or(Get(item, "id", NoneV), Get(item, "call_id", NoneV))
  IN [LlmResponse EXCEPT
        !.content = [role |-> "model",
                     parts |-> <<FunctionCallPart(entry.name, args, id)>>]]

PoppedResponse(entry, item) ==
  LET parsed == JsonLoads(OrText(entry.args_buffer, <<EMPTYOBJ>>))
      args == IF parsed.ok THEN parsed.value ELSE {}
      id == Or(Get(item, "call_id", NoneV), Get(item, "id", NoneV))
  IN [LlmResponse EXCEPT
        !.content = [role |-> "model",
                     parts |-> <<FunctionCallPart(entry.name, args, id)>>]]

\* _handle_output_item_done reading the entry with get() instead of pop().
_handle_output_item_done_Get(p, event) ==
  LET item == Get(event, "item", EmptyDict) IN
  IF Get(item, "type", NoneV) # "function_call" THEN Handled(<<>>, p)
  ELSE LET item_id == ItemKey(item) IN
       IF item_id \notin DOMAIN p THEN Handled(<<>>, p)
       ELSE Handled(<<PoppedResponse(p[item_id], item)>>, p)

\* _handle_output_item_done letting the failure of json.loads out.
_handle_output_item_done_Strict(p, event) ==
  LET item == Get(event, "item", EmptyDict) IN
  IF Get(item, "type", NoneV) # "function_call" THEN Handled(<<>>, p)
  ELSE LET item_id == ItemKey(item) IN
       IF item_id \in DOMAIN p
       THEN IF JsonLoads(OrText(p[item_id].args_buffer, <<EMPTYOBJ>>)).ok
            THEN Handled(<<PoppedResponse(p[item_id], item)>>, Pop(p, item_id))
            ELSE Raised(Pop(p, item_id), "JSONDecodeError")
       ELSE Handled(<<>>, p)

_handle_output_item_done(p, event) ==
  LET item == Get(event, "item", EmptyDict) IN
  IF Get(item, "type", NoneV) # "function_call" THEN Handled(<<>>, p)
  ELSE LET item_id == ItemKey(item) IN
       IF item_id \notin DOMAIN p THEN Handled(<<>>, p)
       ELSE Handled(<<PoppedResponse(p[item_id], item)>>, Pop(p, item_id))

----------------------------------------------------------------------------
(* The other handlers *)

SentinelResponse(t) == TextResponse("SERVER", <<t>>, TRUE)

_handle_conversation_truncated ==
  <<[LlmResponse EXCEPT !.interrupted = TRUE, !.partial = TRUE]>>

\* _handle_response_done: event.get('response', {}) is None when the frame
\* carries "response": null, and None has no get.
\* _handle_response_done dropping the calls still open at the end of the
\* response.
_handle_response_done_Clears(p, event) ==
  LET response == Get(event, "response", EmptyDict) IN
  IF response = NoneD THEN Raised(p, "AttributeError") ELSE
  Handled(<<[LlmResponse EXCEPT !.turn_complete = TRUE,
                                !.custom_metadata = Get(response, "usage", NoneV)]>>,
          EmptyDict)

_handle_response_done(p, event) ==
  LET response == Get(event, "response", EmptyDict) IN
  IF response = NoneD THEN Raised(p, "AttributeError") ELSE
  Handled(<<[LlmResponse EXCEPT !.turn_complete = TRUE,
                                !.custom_metadata = Get(response, "usage", NoneV)]>>, p)

\* _handle_error: event.get('error', {}) is None when the frame carries
\* "error": null, and None has no get.
_handle_error(p, event) ==
  LET err == Get(event, "error", EmptyDict) IN
  IF err = NoneD THEN Raised(p, "AttributeError") ELSE
  Handled(<<[LlmResponse EXCEPT
               !.error_code = Or(Get(err, "code", NoneV), "OPENAI_ERROR"),
               !.error_message = Get(err, "message", NoneV)]>>, p)

\* The four handlers that turn a delta or a transcript into one text record, or
\* into nothing when the text is empty or None.
TextOrNothing(p, role, t, partial) ==
  IF ~TruthyText(t) THEN Handled(<<>>, p)
  ELSE Handled(<<TextResponse(role, t, partial)>>, p)

_handle_input_transcript_delta(p, event) ==
  TextOrNothing(p, "user", Get(event, "delta", <<>>), TRUE)

_handle_input_transcript_completed(p, event) ==
  TextOrNothing(p, "user", Get(event, "transcript", <<>>), FALSE)

_handle_output_text_delta(p, event) ==
  TextOrNothing(p, "model", Get(event, "delta", <<>>), TRUE)

\* _handle_output_text_done flagging its record partial, as the delta handler does.
_handle_output_text_done_Partial(p, event) ==
  LET text == Get(event, "text", <<>>) IN
  IF TruthyText(text) THEN Handled(<<TextResponse("model", text, TRUE)>>, p)
  ELSE Raised(p, "TypeError")

\* Returns None, not a list, when the text is empty: receive() then fails
\* iterating over it.
_handle_output_text_done(p, event) ==
  LET text == Get(event, "text", <<>>) IN
  IF TruthyText(text) THEN Handled(<<TextResponse("model", text, FALSE)>>, p)
  ELSE Raised(p, "TypeError")

_handle_output_transcript_delta(p, event) ==
  TextOrNothing(p, "model", Get(event, "delta", <<>>), TRUE)

_handle_output_transcript_done(p, event) ==
  TextOrNothing(p, "model", Get(event, "transcript", <<>>), FALSE)

\* base64.b64decode on the audio payloads of the model: 'QUJD' is b'ABC'; 'QUJ'
\* has incorrect padding and raises.
B64Decode(s) ==
  IF s = "QUJD" THEN [ok |-> TRUE, data |-> "ABC"] ELSE [ok |-> FALSE, data |-> ""]

_handle_output_audio_delta(p, event) ==
  LET delta == Get(event, "delta", "") IN
  IF ~Truthy(delta) THEN Handled(<<>>, p)
  ELSE IF ~B64Decode(delta).ok THEN Handled(<<>>, p)
  ELSE Handled(<<[LlmResponse EXCEPT
                    !.content = [role |-> "model",
                                 parts |-> <<[kind |-> "inline_data",
                                              data |-> B64Decode(delta).data,
                                              mime_type |-> "audio/pcm"]>>],
                    !.partial = TRUE]>>, p)

----------------------------------------------------------------------------
(* OpenAIEventTypes.Server, parse_server_event and OpenAIEventRouter *)

EventTypeToModel ==
  {"response.text.delta", "response.output_text.delta", "response.audio.delta",
   "response.output_text.done", "response.output_audio.done",
   "response.audio_transcript.delta", "response.audio_transcript.done",
   "conversation.item.input_audio_transcription.delta",
   "conversation.item.input_audio_transcription.completed",
   "input_audio_buffer.speech_started", "input_audio_buffer.speech_stopped",
   "input_audio_buffer.committed", "input_audio_buffer.timeout_triggered",
   "conversation.item.truncated", "response.output_item.added",
   "response.function_call_arguments.delta", "response.function_call_arguments.done",
   "response.output_item.done", "response.done", "output_audio_buffer.started",
   "output_audio_buffer.stopped", "output_audio_buffer.cleared", "error"}

\* parse_server_event: the typed event keeps every field of the frame (extra =
\* 'allow'); the one thing the models of the frames here can refuse is a missing
\* or null "type". Returns the type the router looks up, or the failure.
parse_server_event(event) ==
  LET etype == Get(event, "type", NoneV) IN
  IF etype = NoneV THEN [ok |-> FALSE, type |-> NoneV]
  ELSE [ok |-> TRUE, type |-> etype]

\* register keeping the handler a kind already has.
register_KeepFirst(handlers, event_type, handler) ==
  IF event_type \in DOMAIN handlers THEN handlers ELSE Put(handlers, event_type, handler)

\* router.register(event_type, handler): the later registration replaces the earlier.
register(handlers, event_type, handler) == Put(handlers, event_type, handler)

\* _register_event_handlers: the register calls, in source order.
Registrations ==
  << <<"conversation.item.truncated", "_handle_conversation_truncated">>,
     <<"response.done", "_handle_response_done">>,
     <<"error", "_handle_error">>,
     <<"input_audio_buffer.speech_started", "_handle_speech_started">>,
     <<"input_audio_buffer.speech_stopped", "_handle_speech_stopped">>,
     <<"input_audio_buffer.timeout_triggered", "_handle_timeout_triggered">>,
     <<"conversation.item.input_audio_transcription.delta", "_handle_input_transcript_delta">>,
     <<"conversation.item.input_audio_transcription.completed", "_handle_input_transcript_completed">>,
     <<"response.output_item.added", "_handle_output_item_added">>,
     <<"response.function_call_arguments.delta", "_handle_function_args_delta">>,
     <<"response.function_call_arguments.done", "_handle_function_args_done">>,
     <<"response.output_item.done", "_handle_output_item_done">>,
     <<"response.output_text.delta", "_handle_output_text_delta">>,
     <<"response.output_text.done", "_handle_output_text_done">>,
     <<"output_audio_buffer.started", "_handle_output_audio_started">>,
     <<"response.audio.delta", "_handle_output_audio_delta">>,
     <<"response.output_audio.done", "_handle_output_audio_done">>,
     <<"output_audio_buffer.stopped", "_handle_output_audio_stopped">>,
     <<"response.audio_transcript.delta", "_handle_output_transcript_delta">>,
     <<"response.audio_transcript.done", "_handle_output_transcript_done">> >>

RECURSIVE RegisterAll(_, _)
RegisterAll(handlers, n) ==
  IF n = 0 THEN handlers
  ELSE register(RegisterAll(handlers, n - 1), Registrations[n][1], Registrations[n][2])

\* self._router._handlers once __init__ has run.
Handlers == RegisterAll(EmptyDict, Len(Registrations))

\* The body of the lambda registered for a kind.
Invoke(h, p, event) ==
  CASE h = "_handle_conversation_truncated" -> Handled(_handle_conversation_truncated, p)
    [] h = "_handle_response_done" -> _handle_response_done(p, event)
    [] h = "_handle_error" -> _handle_error(p, event)
    [] h = "_handle_speech_started" -> Handled(<<SentinelResponse("SPEECH_START")>>, p)
    [] h = "_handle_speech_stopped" -> Handled(<<SentinelResponse("SPEECH_END")>>, p)
    [] h = "_handle_timeout_triggered" -> Handled(<<SentinelResponse("TIMEOUT")>>, p)
    [] h = "_handle_input_transcript_delta" -> _handle_input_transcript_delta(p, event)
    [] h = "_handle_input_transcript_completed" -> _handle_input_transcript_completed(p, event)
    [] h = "_handle_output_item_added" -> _handle_output_item_added(p, event)
    [] h = "_handle_function_args_delta" -> _handle_function_args_delta(p, event)
    [] h = "_handle_function_args_done" -> _handle_function_args_done(p, event)
    [] h = "_handle_output_item_done" -> _handle_output_item_done(p, event)
    [] h = "_handle_output_text_delta" -> _handle_output_text_delta(p, event)
    [] h = "_handle_output_text_done" -> _handle_output_text_done(p, event)
    [] h = "_handle_output_audio_started" -> Handled(<<SentinelResponse("TTS_START")>>, p)
    [] h = "_handle_output_audio_delta" -> _handle_output_audio_delta(p, event)
    \* the connection defines no _handle_output_audio_done
    [] h = "_handle_output_audio_done" -> Raised(p, "AttributeError")
    [] h = "_handle_output_audio_stopped" -> Handled(<<SentinelResponse("TTS_END")>>, p)
    [] h = "_handle_output_transcript_delta" -> _handle_output_transcript_delta(p, event)
    [] h = "_handle_output_transcript_done" -> _handle_output_transcript_done(p, event)

\* dispatch indexing the handlers with [] instead of get().
dispatch_Index(p, m) ==
  IF m.json # "object" THEN Handled(<<>>, p)
  ELSE LET typed == parse_server_event(m.event) IN
       IF ~typed.ok THEN Raised(p, "ValidationError")
       ELSE IF typed.type \notin DOMAIN Handlers THEN Raised(p, "KeyError")
       ELSE Invoke(Handlers[typed.type], p, m.event)

\* OpenAIEventRouter.dispatch on a decoded message: m.json is "object" for a
\* dict, "scalar" for any other JSON value.
dispatch(p, m) ==
  IF m.json # "object" THEN Handled(<<>>, p)
  ELSE LET typed == parse_server_event(m.event) IN
       IF ~typed.ok THEN Raised(p, "ValidationError")
       ELSE IF typed.type \notin DOMAIN Handlers THEN Handled(<<>>, p)
       ELSE Invoke(Handlers[typed.type], p, m.event)

----------------------------------------------------------------------------
(* receive() *)

Object(event) == [json |-> "object", event |-> event]
IsFrame(m, type) == m.json = "object" /\ Get(m.event, "type", NoneV) = type
IsFunctionCallItemFrame(m, type) ==
  /\ IsFrame(m, type)
  /\ Get(Get(m.event, "item", EmptyDict), "type", NoneV) = "function_call"

\* The history of open calls: the name the output_item.added frame of each
\* carried, whatever the handlers made of it.
AddedAfter(a, m) ==
  IF IsFunctionCallItemFrame(m, "response.output_item.added")
  THEN Put(a, ItemKey(m.event.item), Get(m.event.item, "name", NoneV))
  ELSE IF IsFunctionCallItemFrame(m, "response.output_item.done")
  THEN Pop(a, ItemKey(m.event.item))
  ELSE a

\* The turn of a receive() that does not catch the failure of json.loads.
Turn_NoCatch(m) ==
  /\ rx = "open"
  /\ msg' = m
  /\ LET r == IF m.json = "invalid" THEN Raised(pending, "JSONDecodeError")
              ELSE dispatch(pending, m)
     IN /\ pending' = r.pending
        /\ yielded' = r.responses
        /\ rx' = IF r.raised = "" THEN "open" ELSE r.raised
  /\ added' = AddedAfter(added, m)
  /\ UNCHANGED apart
  /\ UNCHANGED <<closed, call, sent, sentFor, outcome, ws, wsCloses>>

\* One turn of the loop of receive(): read a message, json.loads it (a failure
\* is logged and the message skipped), dispatch it, yield every record. An
\* exception of the dispatch leaves the generator.
Turn(m) ==
  /\ rx = "open"
  /\ msg' = m
  /\ LET r == IF m.json = "invalid" THEN Handled(<<>>, pending) ELSE dispatch(pending, m)
     IN /\ pending' = r.pending
        /\ yielded' = r.responses
        /\ rx' = IF r.raised = "" THEN "open" ELSE r.raised
  /\ added' = AddedAfter(added, m)
  /\ UNCHANGED apart
  /\ UNCHANGED <<closed, call, sent, sentFor, outcome, ws, wsCloses>>

Receive(m) == Turn(m) /\ UNCHANGED <<recvLog, toYield, delivered>>

\* The same turn, with the message and its records entered in the log.
LoggedReceive(m) ==
  /\ Len(recvLog) < MaxFrames
  /\ Turn(m)
  /\ recvLog' = Append(recvLog, [msg |-> m, responses |-> yielded'])
  /\ UNCHANGED <<toYield, delivered>>

----------------------------------------------------------------------------
(* The frames the remote side sends *)

ItemIds == {"i1", "i2"}
Fragments == {<<OPENQ>>, <<OPENQ, CLOSEX>>}

FunctionCallItem(id, call_id, name, arguments) ==
  [type |-> "function_call", id |-> id, call_id |-> call_id, name |-> name,
   arguments |-> arguments]

MessageItem == [type |-> "message", id |-> "i1", role |-> "assistant"]

OutputItemAddedFrames ==
  {Object([type |-> "response.output_item.added",
           item |-> FunctionCallItem(i, NoneV, n, a)]) :
     i \in ItemIds, n \in {NoneV, "lookup"}, a \in {<<>>} \cup Fragments}
  \cup {Object([type |-> "response.output_item.added",
                item |-> FunctionCallItem("i1", "c1", "lookup", NoneS)]),
        Object([type |-> "response.output_item.added", item |-> MessageItem]),
        Object([type |-> "response.output_item.added"])}

OutputItemDoneFrames ==
  {Object([type |-> "response.output_item.done",
           item |-> [type |-> "function_call", id |-> i, call_id |-> c]]) :
     i \in ItemIds \cup {NoneV}, c \in {NoneV, "c1"}}
  \cup {Object([type |-> "response.output_item.done", item |-> MessageItem]),
        Object([type |-> "response.output_item.done"])}

FunctionArgsDeltaFrames ==
  {Object([type |-> "response.function_call_arguments.delta", item_id |-> i, delta |-> d]) :
     i \in ItemIds \cup {"i9"}, d \in {<<>>, <<CLOSEX>>}}
  \cup {Object([type |-> "response.function_call_arguments.delta", item_id |-> "i1",
                delta |-> NoneS]),
        Object([type |-> "response.function_call_arguments.delta", id |-> "i1",
                delta |-> <<CLOSEX>>]),
        Object([type |-> "response.function_call_arguments.delta", delta |-> <<CLOSEX>>])}

FunctionArgsDoneFrames ==
  {Object([type |-> "response.function_call_arguments.done", item_id |-> i, arguments |-> a]) :
     i \in ItemIds \cup {"i9"}, a \in {<<>>, <<OPENQ, CLOSEX>>}}
  \cup {Object([type |-> "response.function_call_arguments.done", item_id |-> "i1",
                arguments |-> NoneS]),
        Object([type |-> "response.function_call_arguments.done", id |-> "i1",
                arguments |-> <<OPENQ, CLOSEX>>]),
        Object([type |-> "response.function_call_arguments.done"])}

\* Kinds of the taxonomy the connection registers nothing for, and a kind
\* outside the taxonomy; they carry the fields the handlers of other kinds read.
UnregisteredFrames ==
  {Object([type |-> t, item_id |-> "i1", delta |-> <<CLOSEX>>,
           item |-> FunctionCallItem("i1", NoneV, "lookup", <<OPENQ>>)]) :
     t \in {"session.created", "response.created", "response.text.delta",
            "output_audio_buffer.cleared", "response.reasoning.delta"}}

\* The frame does not grow a buffer past MaxBuf.
WithinMaxBuf(m) ==
  LET k == EventKey(m.event) IN
  (k \in DOMAIN pending /\ Get(m.event, "delta", <<>>) # NoneS)
    => Len(pending[k].args_buffer) + Len(Get(m.event, "delta", <<>>)) <= MaxBuf

ReceiveOutputItemAdded == \E m \in OutputItemAddedFrames : Receive(m)
ReceiveFunctionArgsDelta == \E m \in FunctionArgsDeltaFrames : WithinMaxBuf(m) /\ Receive(m)
ReceiveFunctionArgsDone == \E m \in FunctionArgsDoneFrames : Receive(m)
ReceiveOutputItemDone == \E m \in OutputItemDoneFrames : Receive(m)
ReceiveUnregistered == \E m \in UnregisteredFrames : Receive(m)

----------------------------------------------------------------------------
(* The connection, as __init__ leaves it *)

Init ==
  /\ pending = EmptyDict
  /\ closed = FALSE
  /\ rx = "open"
  /\ msg = [json |-> "none"]
  /\ yielded = <<>>
  /\ added = EmptyDict
  /\ recvLog = <<>>
  /\ call = [op |-> "none"]
  /\ sent = <<>>
  /\ sentFor = <<>>
  /\ outcome = "ok"
  /\ ws = "open"
  /\ wsCloses = 0
  /\ toYield = <<>>
  /\ delivered = <<>>
  /\ ret = "none"
  /\ wire = <<>>
  /\ tasks = <<>>
  /\ world = "none"
  /\ router = "none"

Next ==
  \/ ReceiveOutputItemAdded
  \/ ReceiveFunctionArgsDelta
  \/ ReceiveFunctionArgsDone
  \/ ReceiveOutputItemDone
  \/ ReceiveUnregistered

Spec == Init /\ [][Next]_vars

----------------------------------------------------------------------------
(* The text stream of one response, received with a log *)

StreamFrames ==
  {Object([type |-> "response.output_text.delta", delta |-> d]) :
     d \in {<<>>, <<"He">>, <<"llo">>}}
  \cup {Object([type |-> "response.output_text.done", text |-> t]) :
          t \in {<<>>, <<"He", "llo">>, <<"Hi">>}}
  \cup {Object([type |-> "response.audio_transcript.delta", delta |-> <<"He">>]),
        Object([type |-> "response.done", response |-> [usage |-> "u1"]])}

ReceiveStream == \E m \in StreamFrames : LoggedReceive(m)

SpecStream == Init /\ [][ReceiveStream]_vars

----------------------------------------------------------------------------
(* A session: receive() and its consumer, the transport, close() *)

MaxCloses == 2

\* close(): nothing when the flag is set; else self._ws.close(), which may
\* raise, and the flag set in the finally clause. called counts the calls of
\* self._ws.close().
close_NoFinally(isClosed, fails) ==
  IF isClosed THEN [closed |-> TRUE, called |-> 0, raised |-> ""]
  ELSE [closed |-> ~fails, called |-> 1, raised |-> IF fails THEN "OSError" ELSE ""]

close(isClosed, fails) ==
  IF isClosed THEN [closed |-> TRUE, called |-> 0, raised |-> ""]
  ELSE [closed |-> TRUE, called |-> 1, raised |-> IF fails THEN "OSError" ELSE ""]

\* The number of close() calls made so far.
CloseCalls == IF call.op = "close" THEN call.n ELSE 0

\* One call of close(); the socket's close() succeeds or raises.
Close ==
  /\ CloseCalls < MaxCloses
  /\ \E fails \in BOOLEAN :
       LET r == close(closed, fails) IN
       /\ closed' = r.closed
       /\ wsCloses' = wsCloses + r.called
       /\ outcome' = IF r.raised = "" THEN "ok" ELSE r.raised
       /\ ws' = IF r.called = 1 /\ ws = "open"
                THEN (IF fails THEN "closed_error" ELSE "closed_ok")
                ELSE ws
  /\ call' = [op |-> "close", n |-> CloseCalls + 1]
  /\ UNCHANGED apart
  /\ UNCHANGED <<pending, rx, msg, yielded, added, recvLog, sent, sentFor, toYield, delivered>>

\* The remote side or the network closes the transport, with the closing
\* handshake or without it.
RemoteClose ==
  /\ ws = "open"
  /\ ws' \in {"closed_ok", "closed_error"}
  /\ UNCHANGED apart
  /\ UNCHANGED <<pending, closed, rx, msg, yielded, added, recvLog, call, sent, sentFor,
                 outcome, wsCloses, toYield, delivered>>

\* receive() reading the next message before the records of the one before
\* are yielded.
ReadFrame_Eager(m) ==
  /\ ws = "open"
  /\ Len(recvLog) < MaxFrames
  /\ Turn(m)
  /\ recvLog' = Append(recvLog, [msg |-> m, responses |-> yielded'])
  /\ toYield' = yielded'
  /\ UNCHANGED delivered

\* receive() reads the next message once every record of the one before is
\* yielded, and dispatches it; the records returned are then to be yielded.
ReadFrame(m) ==
  /\ ws = "open"
  /\ toYield = <<>>
  /\ Len(recvLog) < MaxFrames
  /\ Turn(m)
  /\ recvLog' = Append(recvLog, [msg |-> m, responses |-> yielded'])
  /\ toYield' = yielded'
  /\ UNCHANGED delivered

\* receive() yields the next record of the message read last.
YieldRecord ==
  /\ rx = "open"
  /\ toYield # <<>>
  /\ delivered' = Append(delivered, Head(toYield))
  /\ toYield' = Tail(toYield)
  /\ UNCHANGED apart
  /\ UNCHANGED <<pending, closed, rx, msg, yielded, added, recvLog, call, sent, sentFor,
                 outcome, ws, wsCloses>>

\* receive() closing the connection itself when it finds the transport closed.
EndReceive_Destroys ==
  /\ rx = "open"
  /\ toYield = <<>>
  /\ ws # "open"
  /\ rx' = IF ws = "closed_ok" THEN "ended" ELSE "ConnectionClosed"
  /\ closed' = TRUE
  /\ wsCloses' = wsCloses + (IF closed THEN 0 ELSE 1)
  /\ UNCHANGED apart
  /\ UNCHANGED <<pending, msg, yielded, added, recvLog, call, sent, sentFor,
                 outcome, ws, toYield, delivered>>

\* receive() ending quietly on every closure.
EndReceive_Swallow ==
  /\ rx = "open"
  /\ toYield = <<>>
  /\ ws # "open"
  /\ rx' = "ended"
  /\ UNCHANGED apart
  /\ UNCHANGED <<pending, closed, msg, yielded, added, recvLog, call, sent, sentFor,
                 outcome, ws, wsCloses, toYield, delivered>>

\* receive() finds the transport closed when it asks for the next message:
\* ConnectionClosedOK ends the generator, any other ConnectionClosed is logged
\* and raised again.
EndReceive ==
  /\ rx = "open"
  /\ toYield = <<>>
  /\ ws # "open"
  /\ rx' = IF ws = "closed_ok" THEN "ended" ELSE "ConnectionClosed"
  /\ UNCHANGED apart
  /\ UNCHANGED <<pending, closed, msg, yielded, added, recvLog, call, sent, sentFor,
                 outcome, ws, wsCloses, toYield, delivered>>

\* The frames of a session: errors with and without a code, a message that is
\* not JSON, a text delta, the end of a response.
ErrorFrames ==
  {Object([type |-> "error", error |-> [code |-> "rate_limit", message |-> "slow down"]]),
   Object([type |-> "error", error |-> [message |-> "slow down"]]),
   Object([type |-> "error", error |-> [code |-> ""]]),
   Object([type |-> "error"]),
   Object([type |-> "error", error |-> NoneD])}

SessionFrames ==
  ErrorFrames
  \cup {[json |-> "invalid"],
        Object([type |-> "response.output_text.delta", delta |-> <<"He">>]),
        Object([type |-> "response.done", response |-> [usage |-> "u1"]])}

ReceiveSession == \E m \in SessionFrames : ReadFrame(m)

NextSession == ReceiveSession \/ YieldRecord \/ EndReceive \/ RemoteClose \/ Close

SpecSession == Init /\ [][NextSession]_vars

\* The same session with a consumer that keeps asking receive() for the next
\* record: the generator is resumed whenever it can yield or end.
SpecSessionFair == SpecSession /\ WF_vars(YieldRecord) /\ WF_vars(EndReceive)

----------------------------------------------------------------------------
(* Frames of every kind of the taxonomy *)

\* The kinds whose handlers read a text from the frame.
TextKinds ==
  {"response.text.delta", "response.output_text.delta", "response.output_text.done",
   "response.audio_transcript.delta", "response.audio_transcript.done",
   "conversation.item.input_audio_transcription.delta",
   "conversation.item.input_audio_transcription.completed"}

ResponseDoneFrames ==
  {Object([type |-> "response.done", response |-> [id |-> "r1", usage |-> "u1"]]),
   Object([type |-> "response.done", response |-> [id |-> "r1"]]),
   Object([type |-> "response.done"]),
   Object([type |-> "response.done", response |-> NoneD])}

\* One frame of each kind with no other field, a frame without a type, a JSON
\* value that is no object, the frames with a text, an audio delta, the ends
\* of a response, an error, and the frames of two calls.
KindFrames ==
  {Object([type |-> t]) : t \in EventTypeToModel \cup {"session.created"}}
  \cup {Object([event_id |-> "e1"]), [json |-> "scalar"]}
  \cup {Object([type |-> t, delta |-> <<"He">>, transcript |-> <<"Hi">>, text |-> <<"Hi">>]) :
          t \in TextKinds}
  \cup {Object([type |-> "response.audio.delta", delta |-> "QUJD"])}
  \cup ResponseDoneFrames
  \cup {Object([type |-> "error", error |-> [code |-> "rate_limit", message |-> "slow down"]])}
  \cup {Object([type |-> "response.output_item.added",
                item |-> FunctionCallItem(i, "c1", "lookup", <<OPENQ, CLOSEX>>)]) :
          i \in ItemIds}
  \cup {Object([type |-> "response.output_item.done",
                item |-> [type |-> "function_call", id |-> i, call_id |-> "c1"]]) :
          i \in ItemIds}

ReceiveKind == \E m \in KindFrames : Receive(m)

SpecKinds == Init /\ [][ReceiveKind]_vars

----------------------------------------------------------------------------
(* The caller's content: types.Content and types.Part *)

\* content.parts, None and [] alike when absent.
Parts(content) == Get(content, "parts", <<>>)

IsFunctionResponse(part) == part.kind = "function_response"
IsFunctionCall(part) == part.kind = "function_call"
PartText(part) == IF part.kind = "text" THEN part.text ELSE NoneS
HasText(part) == TruthyText(PartText(part))
IsReplayedModelText(part) == ~IsFunctionCall(part) /\ HasText(part)

FunctionResponsePart(id, response) ==
  [kind |-> "function_response", id |-> id, name |-> "lookup", response |-> response]

\* The response payloads: r1 and r2 are JSON-serializable, rX is not.
JsonSerializable == {"r1", "r2"}
JsonDumps(response) == <<"json", response>>
Str(response) == <<"str", response>>

----------------------------------------------------------------------------
(* Outbound frames *)

ItemCreate(item) == [type |-> "conversation.item.create", item |-> item]
Message(role, content) ==
  ItemCreate([type |-> "message", role |-> role, content |-> content])
InputText(t) == [type |-> "input_text", text |-> t]
ResponseCreate == [type |-> "response.create"]

\* [F(x) for x in seq]
InputTexts(texts) == [k \in 1..Len(texts) |-> InputText(texts[k])]

----------------------------------------------------------------------------
(* send_history *)

\* json.dumps of the payload, str() of it when json.dumps raises.
FunctionResponseText(part) ==
  IF part.response \in JsonSerializable THEN JsonDumps(part.response)
  ELSE Str(part.response)

\* Case 1 with one function_call_output item per function response, as
\* send_content sends them.
HistoryFunctionResponseFrames_CallOutput(content) ==
  LET responses == SelectSeq(Parts(content), IsFunctionResponse)
  IN [k \in 1..Len(responses) |->
        ItemCreate([type |-> "function_call_output", call_id |-> responses[k].id,
                    output |-> FunctionResponseText(responses[k])])]

\* Case 1: the first part is a function response.
HistoryFunctionResponseFrames(content) ==
  LET responses == SelectSeq(Parts(content), IsFunctionResponse)
      texts == [k \in 1..Len(responses) |-> InputText(FunctionResponseText(responses[k]))]
  IN IF texts # <<>> THEN <<Message("user", texts)>> ELSE <<>>

\* Case 2 replaying the function calls of the model as function_call items.
HistoryModelFrames_ReplayCalls(content) ==
  LET kept == SelectSeq(Parts(content), LAMBDA part : IsFunctionCall(part) \/ HasText(part))
  IN [k \in 1..Len(kept) |->
        IF IsFunctionCall(kept[k])
        THEN ItemCreate([type |-> "function_call", call_id |-> kept[k].id,
                         name |-> kept[k].name])
        ELSE Message("assistant", <<[type |-> "text", text |-> kept[k].text]>>)]

\* Case 2: an item of the model; function calls are skipped, each text is sent.
HistoryModelFrames(content) ==
  LET kept == SelectSeq(Parts(content), IsReplayedModelText)
  IN [k \in 1..Len(kept) |->
        Message("assistant", <<[type |-> "text", text |-> kept[k].text]>>)]

\* Case 3 sending one message per text part.
HistoryUserFrames_PerPart(content) ==
  LET kept == SelectSeq(Parts(content), HasText)
  IN [k \in 1..Len(kept) |-> Message("user", <<InputText(kept[k].text)>>)]

\* Case 3: an item of the user; its texts go into one message.
HistoryUserFrames(content) ==
  LET kept == SelectSeq(Parts(content), HasText)
      texts == [k \in 1..Len(kept) |-> InputText(kept[k].text)]
  IN IF texts # <<>> THEN <<Message("user", texts)>> ELSE <<>>

\* The body of the loop of send_history for one item.
HistoryItemFrames(content) ==
  IF Parts(content) = <<>> THEN <<>>
  ELSE IF IsFunctionResponse(Parts(content)[1]) THEN HistoryFunctionResponseFrames(content)
  ELSE IF content.role = "model" THEN HistoryModelFrames(content)
  ELSE IF content.role = "user" THEN HistoryUserFrames(content)
  ELSE <<>>

\* The frames of the first n items, each with the index of its item.
RECURSIVE Replay(_, _)
Replay(history, n) ==
  IF n = 0 THEN [sent |-> <<>>, sentFor |-> <<>>]
  ELSE LET before == Replay(history, n - 1)
           frames == HistoryItemFrames(history[n])
       IN [sent |-> before.sent \o frames,
           sentFor |-> before.sentFor \o [k \in 1..Len(frames) |-> n]]

\* send_history starting a response when the history ends with a user text.
send_history_AutoRespond(history) ==
  LET replayed == Replay(history, Len(history)) IN
  IF /\ history # <<>>
     /\ history[Len(history)].role = "user"
     /\ HistoryUserFrames(history[Len(history)]) # <<>>
  THEN [sent |-> Append(replayed.sent, ResponseCreate),
        sentFor |-> Append(replayed.sentFor, Len(history))]
  ELSE replayed

send_history(history) ==
  IF history = <<>> THEN [sent |-> <<>>, sentFor |-> <<>>]
  ELSE Replay(history, Len(history))

SendHistory ==
  /\ call.op = "send_history"
  /\ outcome = "pending"
  /\ sent' = send_history(call.history).sent
  /\ sentFor' = send_history(call.history).sentFor
  /\ outcome' = "ok"
  /\ UNCHANGED apart
  /\ UNCHANGED <<pending, closed, rx, msg, yielded, added, recvLog, call,
                 ws, wsCloses, toYield, delivered>>

----------------------------------------------------------------------------
(* send_content *)

\* The function_call_output frames of the parts up to the first payload
\* json.dumps refuses, and that refusal.
RECURSIVE FunctionOutputs(_, _)
FunctionOutputs(parts, n) ==
  IF n = 0 THEN [sent |-> <<>>, raised |-> ""]
  ELSE LET before == FunctionOutputs(parts, n - 1) IN
       IF before.raised # "" \/ ~IsFunctionResponse(parts[n]) THEN before
       ELSE IF parts[n].response \notin JsonSerializable
       THEN [sent |-> before.sent, raised |-> "TypeError"]
       ELSE [sent |-> Append(before.sent,
                             ItemCreate([type |-> "function_call_output",
                                         call_id |-> parts[n].id,
                                         output |-> JsonDumps(parts[n].response)])),
             raised |-> ""]

\* send_content without its assert.
send_content_NoAssert(content) ==
  LET kept == SelectSeq(Parts(content), HasText)
      texts == [k \in 1..Len(kept) |-> InputText(kept[k].text)]
  IN IF texts # <<>> THEN [sent |-> <<Message("user", texts), ResponseCreate>>, raised |-> ""]
     ELSE [sent |-> <<>>, raised |-> ""]

\* send_content starting a response whether or not it sent a message.
send_content_AlwaysRespond(content) ==
  IF Parts(content) = <<>> THEN [sent |-> <<>>, raised |-> "AssertionError"]
  ELSE IF IsFunctionResponse(Parts(content)[1])
  THEN LET outputs == FunctionOutputs(Parts(content), Len(Parts(content))) IN
       IF outputs.raised # "" THEN outputs
       ELSE [sent |-> Append(outputs.sent, ResponseCreate), raised |-> ""]
  ELSE LET kept == SelectSeq(Parts(content), HasText)
           texts == [k \in 1..Len(kept) |-> InputText(kept[k].text)]
       IN IF texts # <<>>
          THEN [sent |-> <<Message("user", texts), ResponseCreate>>, raised |-> ""]
          ELSE [sent |-> <<ResponseCreate>>, raised |-> ""]

send_content(content) ==
  IF Parts(content) = <<>> THEN [sent |-> <<>>, raised |-> "AssertionError"]
  ELSE IF IsFunctionResponse(Parts(content)[1])
  THEN LET outputs == FunctionOutputs(Parts(content), Len(Parts(content))) IN
       IF outputs.raised # "" THEN outputs
       ELSE [sent |-> Append(outputs.sent, ResponseCreate), raised |-> ""]
  ELSE LET kept == SelectSeq(Parts(content), HasText)
           texts == [k \in 1..Len(kept) |-> InputText(kept[k].text)]
       IN IF texts # <<>>
          THEN [sent |-> <<Message("user", texts), ResponseCreate>>, raised |-> ""]
          ELSE [sent |-> <<>>, raised |-> ""]

SendContent ==
  /\ call.op = "send_content"
  /\ outcome = "pending"
  /\ sent' = send_content(call.content).sent
  /\ outcome' = IF send_content(call.content).raised = "" THEN "ok"
                ELSE send_content(call.content).raised
  /\ UNCHANGED apart
  /\ UNCHANGED <<pending, closed, rx, msg, yielded, added, recvLog, call, sentFor,
                 ws, wsCloses, toYield, delivered>>

----------------------------------------------------------------------------
(* send_realtime and the control helpers *)

\* base64.b64encode(data).decode('utf-8'); it raises TypeError on None.
B64Encode(data) ==
  CASE data = "ABC" -> "QUJD"
    [] data = "AB" -> "QUI="
    [] data = "" -> ""

start_response == <<ResponseCreate>>
cancel_response == <<[type |-> "response.cancel"]>>
commit_input_audio == <<[type |-> "input_audio_buffer.commit"]>>
clear_input_audio == <<[type |-> "input_audio_buffer.clear"]>>

\* send_realtime with an activity end cancelling the response.
send_realtime_CancelOnEnd(input) ==
  CASE input.kind = "Blob" ->
         IF input.data = NoneV THEN [sent |-> <<>>, raised |-> "TypeError"]
         ELSE [sent |-> <<[type |-> "input_audio_buffer.append",
                           audio |-> B64Encode(input.data)]>>,
               raised |-> ""]
    [] input.kind = "ActivityStart" ->
         [sent |-> commit_input_audio \o start_response, raised |-> ""]
    [] input.kind = "ActivityEnd" -> [sent |-> cancel_response, raised |-> ""]
    [] OTHER -> [sent |-> <<>>, raised |-> "ValueError"]

\* send_realtime passing over an input it does not support.
send_realtime_IgnoreUnsupported(input) ==
  CASE input.kind = "Blob" ->
         IF input.data = NoneV THEN [sent |-> <<>>, raised |-> "TypeError"]
         ELSE [sent |-> <<[type |-> "input_audio_buffer.append",
                           audio |-> B64Encode(input.data)]>>,
               raised |-> ""]
    [] input.kind = "ActivityStart" ->
         [sent |-> commit_input_audio \o start_response, raised |-> ""]
    [] input.kind = "ActivityEnd" -> [sent |-> clear_input_audio, raised |-> ""]
    [] OTHER -> [sent |-> <<>>, raised |-> ""]

\* send_realtime(input): input.kind is the class of the input.
send_realtime(input) ==
  CASE input.kind = "Blob" ->
         IF input.data = NoneV THEN [sent |-> <<>>, raised |-> "TypeError"]
         ELSE [sent |-> <<[type |-> "input_audio_buffer.append",
                           audio |-> B64Encode(input.data)]>>,
               raised |-> ""]
    [] input.kind = "ActivityStart" ->
         [sent |-> commit_input_audio \o start_response, raised |-> ""]
    [] input.kind = "ActivityEnd" -> [sent |-> clear_input_audio, raised |-> ""]
    [] OTHER -> [sent |-> <<>>, raised |-> "ValueError"]

SendRealtime ==
  /\ call.op = "send_realtime"
  /\ outcome = "pending"
  /\ sent' = send_realtime(call.input).sent
  /\ outcome' = IF send_realtime(call.input).raised = "" THEN "ok"
                ELSE send_realtime(call.input).raised
  /\ UNCHANGED apart
  /\ UNCHANGED <<pending, closed, rx, msg, yielded, added, recvLog, call, sentFor,
                 ws, wsCloses, toYield, delivered>>

\* The inputs the caller passes: blobs with and without data, the activity
\* markers, and values of other classes.
RealtimeInputs ==
  {[kind |-> "Blob", data |-> d] : d \in {"ABC", "AB", "", NoneV}}
  \cup {[kind |-> k] : k \in {"ActivityStart", "ActivityEnd", "str", "NoneType", "Content"}}

----------------------------------------------------------------------------
(* The contents and histories the caller passes *)

Roles == {"user", "model", "system"}
PartTexts == {<<>>, <<"a">>, <<"b">>}

PartPool ==
  {TextPart(t) : t \in PartTexts}
  \cup {FunctionCallPart("lookup", {}, "c0")}
  \cup {FunctionResponsePart("c1", "r1"), FunctionResponsePart("c2", "r2"),
        FunctionResponsePart("c3", "rX")}
  \cup {[kind |-> "inline_data", data |-> "ABC", mime_type |-> "audio/pcm"]}

\* A content of the caller: its parts are the given list when count is a
\* number of parts, and None (no parts field) when count is -1.
Content(role, count, parts) ==
  IF count = -1 THEN [role |-> role] ELSE [role |-> role, parts |-> parts]

\* The numbers of parts an item may have; -1 stands for parts = None.
PartCounts == -1..(MaxSize - 1)
Count(n) == IF n = -1 THEN 0 ELSE n

\* The parts of the items before item i, given the part counts of the items.
RECURSIVE PartsBefore(_, _)
PartsBefore(counts, i) ==
  IF i = 1 THEN 0 ELSE PartsBefore(counts, i - 1) + Count(counts[i - 1])

\* The size of a history: the number of its items plus that of their parts.
HistorySize(counts) == Len(counts) + PartsBefore(counts, Len(counts) + 1)

\* The history whose item i has role roles[i] and the next counts[i] parts of all.
HistoryOf(counts, roles, all) ==
  [i \in 1..Len(counts) |->
     Content(roles[i], counts[i],
             SubSeq(all, PartsBefore(counts, i) + 1,
                    PartsBefore(counts, i) + Count(counts[i])))]

\* The connection of Init, about to run one outbound call on a history or a
\* content of size MaxSize at most.
InitOutbound ==
  /\ pending = EmptyDict
  /\ closed = FALSE
  /\ rx = "open"
  /\ msg = [json |-> "none"]
  /\ yielded = <<>>
  /\ added = EmptyDict
  /\ recvLog = <<>>
  /\ \/ \E n \in 0..MaxSize : \E counts \in [1..n -> PartCounts] :
          /\ HistorySize(counts) <= MaxSize
          /\ \E roles \in [1..n -> Roles] :
               \E all \in [1..(HistorySize(counts) - n) -> PartPool] :
                 call = [op |-> "send_history", history |-> HistoryOf(counts, roles, all)]
     \/ \E count \in PartCounts : \E role \in Roles :
          \E parts \in [1..Count(count) -> PartPool] :
            call = [op |-> "send_content",
                    content |-> Content(role, count, parts)]
     \/ \E input \in RealtimeInputs : call = [op |-> "send_realtime", input |-> input]
  /\ sent = <<>>
  /\ sentFor = <<>>
  /\ outcome = "pending"
  /\ ws = "open"
  /\ wsCloses = 0
  /\ toYield = <<>>
  /\ delivered = <<>>
  /\ ret = "none"
  /\ wire = <<>>
  /\ tasks = <<>>
  /\ world = "none"
  /\ router = "none"

NextOutbound == SendHistory \/ SendContent \/ SendRealtime

SpecOutbound == InitOutbound /\ [][NextOutbound]_vars

----------------------------------------------------------------------------
(* connect(): _deep_merge *)

MaxKeys == 3

\* The values of a configuration mapping, tagged with their Python class: a
\* leaf (str, int, list, ...), None, or a dict.
Leaf(v) == [t |-> "leaf", v |-> v]
NoneJ == [t |-> "none"]
Dict(m) == [t |-> "dict", d |-> m]
IsDict(v) == v.t = "dict"

\* _deep_merge storing the None values of extra like any other value.
RECURSIVE _deep_merge_NoneOverwrites(_, _)
_deep_merge_NoneOverwrites(base, extra) ==
  [k \in (DOMAIN base) \cup (DOMAIN extra) |->
     IF k \notin DOMAIN extra THEN base[k]
     ELSE IF IsDict(extra[k]) /\ k \in DOMAIN base /\ IsDict(base[k])
     THEN Dict(_deep_merge_NoneOverwrites(base[k].d, extra[k].d))
     ELSE extra[k]]

\* _deep_merge storing every value of extra as it is, dicts included.
_deep_merge_Shallow(base, extra) ==
  [k \in (DOMAIN base) \cup {x \in DOMAIN extra : extra[x] # NoneJ} |->
     IF k \notin DOMAIN extra \/ extra[k] = NoneJ THEN base[k] ELSE extra[k]]

\* _deep_merge(base, extra): each key of extra whose value is not None is
\* merged into base when both values are dicts (on a copy of the dict of
\* base), and stored over the value of base otherwise.
RECURSIVE _deep_merge(_, _)
_deep_merge(base, extra) ==
  [k \in (DOMAIN base) \cup {x \in DOMAIN extra : extra[x] # NoneJ} |->
     IF k \notin DOMAIN extra \/ extra[k] = NoneJ THEN base[k]
     ELSE IF IsDict(extra[k]) /\ k \in DOMAIN base /\ IsDict(base[k])
     THEN Dict(_deep_merge(base[k].d, extra[k].d))
     ELSE extra[k]]

\* One call of _deep_merge on the mappings of call.
DeepMerge ==
  /\ call.op = "_deep_merge"
  /\ outcome = "pending"
  /\ ret' = _deep_merge(call.base, call.extra)
  /\ outcome' = "ok"
  /\ UNCHANGED <<pending, closed, rx, msg, yielded, added, recvLog, call, sent, sentFor,
                 ws, wsCloses, toYield, delivered, wire, tasks, world, router>>

\* The mappings over the keys a and b with MaxKeys keys at most, nested ones
\* counted, and the values they hold.
MergeKeys == {"a", "b"}
MergeLeaves == {Leaf(1), Leaf(2), NoneJ}

RECURSIVE MappingsOver(_, _)
RECURSIVE ValuesUpTo(_)
ValuesUpTo(n) == MergeLeaves \cup {Dict(m) : m \in MappingsOver(MergeKeys, n)}
MappingsOver(keys, n) ==
  IF keys = {} \/ n = 0 THEN {EmptyDict}
  ELSE LET k == CHOOSE x \in keys : TRUE IN
       MappingsOver(keys \ {k}, n)
       \cup UNION {{Put(m, k, v) : m \in MappingsOver(keys \ {k}, n - 1 - w),
                                   v \in ValuesUpTo(w)} : w \in 0..(n - 1)}

\* The example of the documentation: {a: {b: 1, c: 2}} and {a: {b: None, d: 3}}.
ExampleBase == [a |-> Dict([b |-> Leaf(1), c |-> Leaf(2)])]
ExampleExtra == [a |-> Dict([b |-> NoneJ, d |-> Leaf(3)])]

InitMerge ==
  /\ pending = EmptyDict
  /\ closed = FALSE
  /\ rx = "open"
  /\ msg = [json |-> "none"]
  /\ yielded = <<>>
  /\ added = EmptyDict
  /\ recvLog = <<>>
  /\ \/ \E base \in MappingsOver(MergeKeys, MaxKeys) :
          \E extra \in MappingsOver(MergeKeys, MaxKeys) :
            call = [op |-> "_deep_merge", base |-> base, extra |-> extra]
     \/ call = [op |-> "_deep_merge", base |-> ExampleBase, extra |-> ExampleExtra]
  /\ sent = <<>>
  /\ sentFor = <<>>
  /\ outcome = "pending"
  /\ ws = "open"
  /\ wsCloses = 0
  /\ toYield = <<>>
  /\ delivered = <<>>
  /\ ret = "none"
  /\ wire = <<>>
  /\ tasks = <<>>
  /\ world = "none"
  /\ router = "none"

SpecMerge == InitMerge /\ [][DeepMerge]_vars

----------------------------------------------------------------------------
(* connect(): the session configuration and the handshake *)

\* _TYPE_MAP, looked up with the upper-cased name of the type.
_TYPE_MAP ==
  [k \in {"OBJECT", "STRING", "INTEGER", "NUMBER", "BOOLEAN", "ARRAY"} |->
     CASE k = "OBJECT" -> "object"
       [] k = "STRING" -> "string"
       [] k = "INTEGER" -> "integer"
       [] k = "NUMBER" -> "number"
       [] k = "BOOLEAN" -> "boolean"
       [] k = "ARRAY" -> "array"]

\* str.upper() on the names of types used here.
Upper(key) ==
  CASE key = "object" -> "OBJECT"
    [] key = "string" -> "STRING"
    [] OTHER -> key

\* A types.Schema object; enum, required and properties are empty when the
\* attribute is None or empty, items is None when there is none.
Schema(type, description, enum, properties, required, items) ==
  [kind |-> "Schema", type |-> type, description |-> description, enum |-> enum,
   properties |-> properties, required |-> required, items |-> items]

\* adk_schema_to_openai_json_schema(schema): {} for None, a dict as it is,
\* and for a Schema object the mapped type, the description, the enum, the
\* properties converted one by one, the required list and the items
\* converted; a schema with properties and no mapped type is an object.
RECURSIVE adk_schema_to_openai_json_schema(_)
adk_schema_to_openai_json_schema(schema) ==
  IF schema = NoneD THEN EmptyDict
  ELSE IF schema.kind = "dict" THEN schema.json
  ELSE LET mapped == IF schema.type = NoneV THEN NoneV
                     ELSE Get(_TYPE_MAP, Upper(schema.type), NoneV)
           hasProps == schema.properties # EmptyDict
           keys == (IF mapped # NoneV \/ hasProps THEN {"type"} ELSE {})
                   \cup (IF Truthy(schema.description) THEN {"description"} ELSE {})
                   \cup (IF schema.enum # <<>> THEN {"enum"} ELSE {})
                   \cup (IF hasProps THEN {"properties"} ELSE {})
                   \cup (IF schema.required # <<>> THEN {"required"} ELSE {})
                   \cup (IF schema.items # NoneD THEN {"items"} ELSE {})
       IN [k \in keys |->
             CASE k = "type" -> IF mapped # NoneV THEN mapped ELSE "object"
               [] k = "description" -> schema.description
               [] k = "enum" -> schema.enum
               [] k = "properties" ->
                    [key \in DOMAIN schema.properties |->
                       adk_schema_to_openai_json_schema(schema.properties[key])]
               [] k = "required" -> schema.required
               [] k = "items" -> adk_schema_to_openai_json_schema(schema.items)]

\* The entry of one function declaration; a declaration without parameters
\* gets the schema {'type': 'object'}.
FunctionTool(decl) ==
  [type |-> "function", name |-> decl.name, description |-> decl.description,
   parameters |-> IF decl.parameters = NoneD THEN [type |-> "object"]
                  ELSE adk_schema_to_openai_json_schema(decl.parameters)]

\* A types.Tool object and a types.ToolDict (a dict) with the declarations
\* they hold; function_declarations is empty when it is None or [].
Tool(function_declarations) ==
  [class |-> "Tool", function_declarations |-> function_declarations]
ToolDict(function_declarations) ==
  [class |-> "ToolDict", function_declarations |-> function_declarations]

\* function_tools_to_openai_session_tools(tools): one entry per function
\* declaration, in order; a tool without declarations gives none. A tool that
\* is no types.Tool object makes isinstance test it against types.ToolDict,
\* a TypedDict, which raises TypeError (and a dict has no attribute
\* function_declarations). tools is a list (None takes the branch of the
\* empty list).
RECURSIVE function_tools_to_openai_session_tools(_)
function_tools_to_openai_session_tools(tools) ==
  IF tools = <<>> THEN [converted |-> <<>>, raised |-> ""]
  ELSE IF tools[1].class # "Tool" THEN [converted |-> <<>>, raised |-> "TypeError"]
  ELSE LET decls == tools[1].function_declarations
           rest == function_tools_to_openai_session_tools(Tail(tools))
       IN IF rest.raised # "" THEN rest
          ELSE [converted |-> [k \in 1..Len(decls) |-> FunctionTool(decls[k])]
                              \o rest.converted,
                raised |-> ""]

\* What the registered provider gives: nothing is registered, the call
\* raises, or it returns a value; only a returned dict is merged.
provider_overrides(prov) ==
  IF prov.t = "returns" /\ IsDict(prov.v) THEN _deep_merge(EmptyDict, prov.v.d)
  ELSE EmptyDict

\* overrides: the provider's overrides, then the runtime context merged over
\* them when it is a dict.
overrides(prov, runtime_ctx) ==
  IF IsDict(runtime_ctx) THEN _deep_merge(provider_overrides(prov), runtime_ctx.d)
  ELSE provider_overrides(prov)

\* The session with the runtime context merged first and the provider's
\* overrides over it.
session_ProviderLast(prov, runtime_ctx, system_instruction, tools) ==
  LET ctx == IF IsDict(runtime_ctx) THEN _deep_merge(EmptyDict, runtime_ctx.d)
             ELSE EmptyDict
      merged == IF prov.t = "returns" /\ IsDict(prov.v) THEN _deep_merge(ctx, prov.v.d)
                ELSE ctx
      chosen == IF "tool_choice" \in DOMAIN merged THEN merged
                ELSE Put(merged, "tool_choice", Leaf("auto"))
      instructed == IF Truthy(system_instruction)
                    THEN Put(chosen, "instructions", Leaf(system_instruction))
                    ELSE chosen
      converted == function_tools_to_openai_session_tools(tools).converted
  IN IF converted # <<>> THEN Put(instructed, "tools", Leaf(converted)) ELSE instructed

\* The session with tool_choice set to 'auto' whatever the overrides say.
session_AlwaysAuto(prov, runtime_ctx, system_instruction, tools) ==
  LET merged == IF overrides(prov, runtime_ctx) # EmptyDict
                THEN _deep_merge(EmptyDict, overrides(prov, runtime_ctx))
                ELSE EmptyDict
      chosen == Put(merged, "tool_choice", Leaf("auto"))
      instructed == IF Truthy(system_instruction)
                    THEN Put(chosen, "instructions", Leaf(system_instruction))
                    ELSE chosen
      converted == function_tools_to_openai_session_tools(tools).converted
  IN IF converted # <<>> THEN Put(instructed, "tools", Leaf(converted)) ELSE instructed

\* session_update['session'] as connect builds it: the overrides merged into
\* the empty session, tool_choice 'auto' when no override set it, the system
\* instruction when there is one, the converted tools when there are some.
session(prov, runtime_ctx, system_instruction, tools) ==
  LET merged == IF overrides(prov, runtime_ctx) # EmptyDict
                THEN _deep_merge(EmptyDict, overrides(prov, runtime_ctx))
                ELSE EmptyDict
      chosen == IF "tool_choice" \in DOMAIN merged THEN merged
                ELSE Put(merged, "tool_choice", Leaf("auto"))
      instructed == IF Truthy(system_instruction)
                    THEN Put(chosen, "instructions", Leaf(system_instruction))
                    ELSE chosen
      converted == function_tools_to_openai_session_tools(tools).converted
  IN IF converted # <<>> THEN Put(instructed, "tools", Leaf(converted)) ELSE instructed

session_update(request) ==
  [type |-> "session.update",
   session |-> session(request.prov, request.runtime_ctx,
                       request.system_instruction, request.tools)]

\* A frame on the socket, with the operation that wrote it.
Written(by, frames) == [k \in 1..Len(frames) |-> [by |-> by, frame |-> frames[k]]]

\* websockets.connect handing the connection to the caller as soon as the
\* socket is open.
OpenSocket_HandsConnection ==
  /\ call.op = "connect"
  /\ outcome = "pending"
  /\ ws = "none"
  /\ \/ ws' = "open" /\ ret' = "connection" /\ outcome' = "ok"
     \/ ws' = "none" /\ ret' = ret /\ outcome' = "raised"
  /\ UNCHANGED <<pending, closed, rx, msg, yielded, added, recvLog, call, sent, sentFor,
                 wsCloses, toYield, delivered, wire, tasks, world, router>>

\* await websockets.connect(...): the socket is open, or the call raises and
\* connect ends without a connection.
OpenSocket ==
  /\ call.op = "connect"
  /\ outcome = "pending"
  /\ ws = "none"
  /\ \/ ws' = "open" /\ ret' = ret /\ outcome' = outcome
     \/ ws' = "none" /\ ret' = ret /\ outcome' = "raised"
  /\ UNCHANGED <<pending, closed, rx, msg, yielded, added, recvLog, call, sent, sentFor,
                 wsCloses, toYield, delivered, wire, tasks, world, router>>

\* The session is built and written with ws.send, then the connection is
\* yielded; when ws.send raises, connect ends without a connection.
SessionUpdate ==
  /\ call.op = "connect"
  /\ outcome = "pending"
  /\ ws = "open"
  /\ ret = "none"
  /\ \/ /\ wire' = wire \o Written("connect", <<session_update(call)>>)
        /\ ret' = "connection"
        /\ outcome' = "ok"
     \/ /\ wire' = wire
        /\ ret' = ret
        /\ outcome' = "raised"
  /\ UNCHANGED <<pending, closed, rx, msg, yielded, added, recvLog, call, sent, sentFor,
                 ws, wsCloses, toYield, delivered, tasks, world, router>>

\* The caller uses the connection it was handed: one send_content,
\* send_realtime or send_history writes its frames on the socket.
UseConnection ==
  /\ call.op = "connect"
  /\ ret = "connection"
  /\ ws = "open"
  /\ Len(wire) <= 1
  /\ \/ wire' = wire \o Written("send_content",
                                send_content(Content("user", 1, <<TextPart("a")>>)).sent)
     \/ wire' = wire \o Written("send_realtime",
                                send_realtime([kind |-> "ActivityStart"]).sent)
     \/ wire' = wire \o Written("send_history",
                                send_history(<<Content("user", 1, <<TextPart("a")>>)>>).sent)
  /\ UNCHANGED <<pending, closed, rx, msg, yielded, added, recvLog, call, sent, sentFor,
                 outcome, ws, wsCloses, toYield, delivered, ret, tasks, world, router>>

\* The caller leaves the context: the finally clause closes the socket.
ExitConnect ==
  /\ call.op = "connect"
  /\ ret = "connection"
  /\ ws' = "closed"
  /\ wsCloses' = wsCloses + 1
  /\ ret' = "exited"
  /\ UNCHANGED <<pending, closed, rx, msg, yielded, added, recvLog, call, sent, sentFor,
                 outcome, toYield, delivered, wire, tasks, world, router>>

\* What the provider and the runtime context hold: tool_choice, instructions
\* and tools as leaves, and audio as a leaf or a nested mapping.
OverrideMappings ==
  {[k \in {x \in DOMAIN m : m[x] # [t |-> "absent"]} |-> m[k]] :
     m \in [tool_choice : {[t |-> "absent"], NoneJ, Leaf("required"), Leaf("none")},
            instructions : {[t |-> "absent"], Leaf("overridden")},
            tools : {[t |-> "absent"], Leaf("overridden")},
            audio : {[t |-> "absent"], Leaf(1), Dict([in |-> Leaf(1)]),
                     Dict([out |-> Leaf(2)])}]}

Providers ==
  {[t |-> "unset"], [t |-> "raises"], [t |-> "returns", v |-> NoneJ],
   [t |-> "returns", v |-> Leaf("text")]}
  \cup {[t |-> "returns", v |-> Dict(m)] : m \in OverrideMappings}

RuntimeContexts == {NoneJ} \cup {Dict(m) : m \in OverrideMappings}

Declaration(name) == [name |-> name, description |-> "d", parameters |-> NoneD]

ToolLists ==
  {<<>>,
   <<Tool(<<>>)>>,
   <<Tool(<<Declaration("f")>>)>>,
   <<Tool(<<Declaration("f")>>), Tool(<<Declaration("g")>>)>>}

InitConnect ==
  /\ pending = EmptyDict
  /\ closed = FALSE
  /\ rx = "open"
  /\ msg = [json |-> "none"]
  /\ yielded = <<>>
  /\ added = EmptyDict
  /\ recvLog = <<>>
  /\ \E prov \in Providers, runtime_ctx \in RuntimeContexts,
        system_instruction \in {NoneV, "", "Be brief."}, tools \in ToolLists :
       call = [op |-> "connect", prov |-> prov, runtime_ctx |-> runtime_ctx,
               system_instruction |-> system_instruction, tools |-> tools]
  /\ sent = <<>>
  /\ sentFor = <<>>
  /\ outcome = "pending"
  /\ ws = "none"
  /\ wsCloses = 0
  /\ toYield = <<>>
  /\ delivered = <<>>
  /\ ret = "none"
  /\ wire = <<>>
  /\ tasks = <<>>
  /\ world = "none"
  /\ router = "none"

NextConnect == OpenSocket \/ SessionUpdate \/ UseConnection \/ ExitConnect

SpecConnect == InitConnect /\ [][NextConnect]_vars

----------------------------------------------------------------------------
(* OpenAIEventRouter on its own *)

MaxRegisters == 3

\* A handler registered by a caller of the router: invoked, it returns one
\* response that names it and the type of the event it was given.
HandlerResponse(handler, type) == [by |-> handler, type |-> type]

\* OpenAIEventRouter.dispatch(event) on the router r: the record of the
\* dispatch, with the handlers invoked and what dispatch returned or raised.
Dispatched(m, invoked, returned, raised) ==
  [t |-> "dispatched", frame |-> m, invoked |-> invoked, returned |-> returned,
   raised |-> raised]

router_dispatch(r, m) ==
  IF m.json # "object" THEN Dispatched(m, <<>>, <<>>, "")
  ELSE LET typed == parse_server_event(m.event) IN
       IF ~typed.ok THEN Dispatched(m, <<>>, <<>>, "ValidationError")
       ELSE LET handler == Get(r.handlers, typed.type, NoneV) IN
            IF handler = NoneV THEN Dispatched(m, <<>>, <<>>, "")
            ELSE Dispatched(m, <<handler>>, <<HandlerResponse(handler, typed.type)>>, "")

\* router.register(event_type, handler), with the call noted in r.registered.
RouterRegister ==
  /\ call.op = "router"
  /\ Len(router.registered) < MaxRegisters
  /\ \E event_type \in {"error", "response.done", "custom.kind"},
        handler \in {"h1", "h2"} :
       router' = [router EXCEPT
                    !.handlers = register(@, event_type, handler),
                    !.registered = Append(@, <<event_type, handler>>)]
  /\ UNCHANGED <<pending, closed, rx, msg, yielded, added, recvLog, call, sent, sentFor,
                 outcome, ws, wsCloses, toYield, delivered, ret, wire, tasks, world>>

\* The frames dispatched: one of each kind, one without a type, and a JSON
\* value that is no object.
RouterFrames ==
  {[json |-> "object", event |-> [type |-> k]] :
     k \in {"error", "response.done", "custom.kind"}}
  \cup {[json |-> "object", event |-> [event_id |-> "e1"]], [json |-> "scalar"]}

\* router.dispatch(event)
RouterDispatch ==
  /\ call.op = "router"
  /\ \E m \in RouterFrames : router' = [router EXCEPT !.last = router_dispatch(router, m)]
  /\ UNCHANGED <<pending, closed, rx, msg, yielded, added, recvLog, call, sent, sentFor,
                 outcome, ws, wsCloses, toYield, delivered, ret, wire, tasks, world>>

\* OpenAIEventRouter(): no handler is registered.
InitRouter ==
  /\ pending = EmptyDict
  /\ closed = FALSE
  /\ rx = "open"
  /\ msg = [json |-> "none"]
  /\ yielded = <<>>
  /\ added = EmptyDict
  /\ recvLog = <<>>
  /\ call = [op |-> "router"]
  /\ sent = <<>>
  /\ sentFor = <<>>
  /\ outcome = "ok"
  /\ ws = "open"
  /\ wsCloses = 0
  /\ toYield = <<>>
  /\ delivered = <<>>
  /\ ret = "none"
  /\ wire = <<>>
  /\ tasks = <<>>
  /\ world = "none"
  /\ router = [handlers |-> EmptyDict, registered |-> <<>>, last |-> [t |-> "none"]]

NextRouter == RouterRegister \/ RouterDispatch

SpecRouter == InitRouter /\ [][NextRouter]_vars

----------------------------------------------------------------------------
(* Two connections side by side *)

MaxWritten == 2

\* The objects of the process: the connections by name, the sockets that
\* connect opened, and the dicts allocated so far (a reference to a dict is
\* its position in world.dicts). world.last names the connection the last
\* operation was invoked on.

\* __init__ with the pending map as an attribute of the class: every
\* connection refers to the same dict.
__init___SharedPending(w, c, websocket) ==
  [w EXCEPT
     !.dicts = IF w.dicts = <<>> THEN <<EmptyDict>> ELSE w.dicts,
     !.conns = Put(w.conns, c, [_ws |-> websocket, _closed |-> FALSE,
                                _pending_func_calls |-> 1])]

\* OpenAIRealtimeConnection(websocket=...): the connection keeps the socket it
\* is given, a closed flag and a dict of its own.
__init__(w, c, websocket) ==
  [w EXCEPT
     !.dicts = Append(w.dicts, EmptyDict),
     !.conns = Put(w.conns, c, [_ws |-> websocket, _closed |-> FALSE,
                                _pending_func_calls |-> Len(w.dicts) + 1])]

\* connect yields a connection on the socket it opened: s1 for A, s2 for B.
Construct ==
  /\ call.op = "world"
  /\ \E c \in {"A", "B"} \ DOMAIN world.conns :
       world' = [__init__(world, c, IF c = "A" THEN "s1" ELSE "s2")
                   EXCEPT !.last = [conn |-> c, op |-> "__init__"]]
  /\ UNCHANGED <<pending, closed, rx, msg, yielded, added, recvLog, call, sent, sentFor,
                 outcome, ws, wsCloses, toYield, delivered, ret, wire, tasks, router>>

\* The frames that add, replace and remove an entry of the pending map.
WorldFrames ==
  {Object([type |-> "response.output_item.added",
           item |-> FunctionCallItem("i1", NoneV, "lookup", <<OPENQ>>)]),
   Object([type |-> "response.function_call_arguments.done", item_id |-> "i1",
           arguments |-> <<OPENQ, CLOSEX>>]),
   Object([type |-> "response.output_item.done",
           item |-> [type |-> "function_call", id |-> "i1", call_id |-> "c1"]])}

\* receive() of connection c processes a frame read from its socket.
WorldReceive ==
  /\ call.op = "world"
  /\ \E c \in DOMAIN world.conns, m \in WorldFrames :
       LET self == world.conns[c] IN
       /\ world.sockets[self._ws].state = "open"
       /\ world' = [world EXCEPT
                      !.dicts[self._pending_func_calls] =
                         dispatch(world.dicts[self._pending_func_calls], m).pending,
                      !.last = [conn |-> c, op |-> "receive"]]
  /\ UNCHANGED <<pending, closed, rx, msg, yielded, added, recvLog, call, sent, sentFor,
                 outcome, ws, wsCloses, toYield, delivered, ret, wire, tasks, router>>

\* send_realtime or send_content on connection c: _send writes each frame on
\* self._ws; on a closed socket the first write raises.
WorldSend ==
  /\ call.op = "world"
  /\ \E c \in DOMAIN world.conns,
        frames \in {send_realtime([kind |-> "ActivityStart"]).sent,
                    send_realtime([kind |-> "ActivityEnd"]).sent,
                    send_content(Content("user", 1, <<TextPart("a")>>)).sent} :
       LET self == world.conns[c] IN
       /\ world.sockets[self._ws].written + Len(frames) <= MaxWritten
       /\ world' = [world EXCEPT
                      !.sockets[self._ws].written =
                         IF world.sockets[self._ws].state = "open" THEN @ + Len(frames)
                         ELSE @,
                      !.last = [conn |-> c, op |-> "send"]]
  /\ UNCHANGED <<pending, closed, rx, msg, yielded, added, recvLog, call, sent, sentFor,
                 outcome, ws, wsCloses, toYield, delivered, ret, wire, tasks, router>>

\* close() on connection c.
WorldClose ==
  /\ call.op = "world"
  /\ \E c \in DOMAIN world.conns, fails \in BOOLEAN :
       LET self == world.conns[c]
           r == close(self._closed, fails)
       IN world' = [world EXCEPT
                      !.conns[c]._closed = r.closed,
                      !.sockets[self._ws].state = IF r.called = 1 THEN "closed" ELSE @,
                      !.sockets[self._ws].closes = @ + r.called,
                      !.last = [conn |-> c, op |-> "close"]]
  /\ UNCHANGED <<pending, closed, rx, msg, yielded, added, recvLog, call, sent, sentFor,
                 outcome, ws, wsCloses, toYield, delivered, ret, wire, tasks, router>>

\* Two connect calls have opened a socket each; no connection is built yet.
InitWorld ==
  /\ pending = EmptyDict
  /\ closed = FALSE
  /\ rx = "open"
  /\ msg = [json |-> "none"]
  /\ yielded = <<>>
  /\ added = EmptyDict
  /\ recvLog = <<>>
  /\ call = [op |-> "world"]
  /\ sent = <<>>
  /\ sentFor = <<>>
  /\ outcome = "ok"
  /\ ws = "open"
  /\ wsCloses = 0
  /\ toYield = <<>>
  /\ delivered = <<>>
  /\ ret = "none"
  /\ wire = <<>>
  /\ tasks = <<>>
  /\ world = [conns |-> EmptyDict,
              sockets |-> [s \in {"s1", "s2"} |->
                             [state |-> "open", written |-> 0, closes |-> 0]],
              dicts |-> <<>>,
              last |-> [conn |-> "none", op |-> "none"]]
  /\ router = "none"

NextWorld == Construct \/ WorldReceive \/ WorldSend \/ WorldClose

SpecWorld == InitWorld /\ [][NextWorld]_vars

----------------------------------------------------------------------------
(* Outbound operations running as concurrent tasks on one connection *)

\* The operations a caller may start: each is the list of frames its calls
\* of _send write, in order.
SendOperations ==
  {[op |-> "send_content", todo |-> send_content(Content("user", 1, <<TextPart("a")>>)).sent],
   [op |-> "send_realtime", todo |-> send_realtime([kind |-> "ActivityStart"]).sent],
   [op |-> "send_realtime", todo |-> send_realtime([kind |-> "ActivityEnd"]).sent],
   [op |-> "send_realtime", todo |-> send_realtime([kind |-> "Blob", data |-> "AB"]).sent],
   [op |-> "send_history",
    todo |-> send_history(<<Content("user", 1, <<TextPart("a")>>),
                            Content("model", 1, <<TextPart("b")>>)>>).sent]}

\* _send(event) in task t: await self._ws.send(json.dumps(event)) writes the
\* frame; nothing holds the socket between two calls of _send, so the task
\* may be suspended at the await and another task may write next.
Send ==
  /\ call.op = "tasks"
  /\ \E t \in DOMAIN tasks :
       /\ tasks[t].todo # <<>>
       /\ wire' = Append(wire, [by |-> t, frame |-> Head(tasks[t].todo)])
       /\ tasks' = [tasks EXCEPT ![t].todo = Tail(@)]
  /\ UNCHANGED <<pending, closed, rx, msg, yielded, added, recvLog, call, sent, sentFor,
                 outcome, ws, wsCloses, toYield, delivered, ret, world, router>>

\* Two operations have been started on the connection and run as tasks of
\* the event loop.
InitSends ==
  /\ pending = EmptyDict
  /\ closed = FALSE
  /\ rx = "open"
  /\ msg = [json |-> "none"]
  /\ yielded = <<>>
  /\ added = EmptyDict
  /\ recvLog = <<>>
  /\ call = [op |-> "tasks"]
  /\ sent = <<>>
  /\ sentFor = <<>>
  /\ outcome = "ok"
  /\ ws = "open"
  /\ wsCloses = 0
  /\ toYield = <<>>
  /\ delivered = <<>>
  /\ ret = "none"
  /\ wire = <<>>
  /\ \E a \in SendOperations, b \in SendOperations : tasks = <<a, b>>
  /\ world = "none"
  /\ router = "none"

SpecSends == InitSends /\ [][Send]_vars

----------------------------------------------------------------------------
(* function_tools_to_openai_session_tools on its own *)

MaxTools == 2

\* The schemas of the declarations: a string with a description and an enum,
\* an integer, an array of strings, an object with two properties and a
\* required list, properties without a type, an object in an object, a type
\* the table does not know, a schema given as a dict, and none.
StringSchema == Schema("STRING", "a word", <<"a", "b">>, EmptyDict, <<>>, NoneD)
IntegerSchema == Schema("INTEGER", NoneV, <<>>, EmptyDict, <<>>, NoneD)
ArraySchema == Schema("ARRAY", NoneV, <<>>, EmptyDict, <<>>, StringSchema)
ObjectSchema ==
  Schema("OBJECT", "a query", <<>>, [q |-> StringSchema, n |-> ArraySchema], <<"q">>, NoneD)

ParameterSchemas ==
  {NoneD, StringSchema, ArraySchema, ObjectSchema,
   Schema(NoneV, NoneV, <<>>, [n |-> IntegerSchema], <<>>, NoneD),
   Schema("object", NoneV, <<>>, [o |-> ObjectSchema], <<"o">>, NoneD),
   Schema("NULL", NoneV, <<>>, EmptyDict, <<>>, NoneD),
   [kind |-> "dict", json |-> [type |-> "object"]]}

FunctionDeclarations ==
  {[name |-> name, description |-> "d", parameters |-> parameters] :
     name \in {"f", "g"}, parameters \in ParameterSchemas}
  \cup {[name |-> "f", description |-> NoneV, parameters |-> NoneD]}

\* The tools of a request: objects and dicts, with no declaration, one, or two.
Tools ==
  LET lists == {<<>>} \cup {<<d>> : d \in FunctionDeclarations}
               \cup {<<[name |-> "f", description |-> "d", parameters |-> ObjectSchema], d>> :
                       d \in {x \in FunctionDeclarations : x.name = "g"}}
  IN {Tool(l) : l \in lists} \cup {ToolDict(l) : l \in lists}

\* One call of function_tools_to_openai_session_tools on the tools of call.
ConvertTools ==
  /\ call.op = "function_tools"
  /\ outcome = "pending"
  /\ ret' = function_tools_to_openai_session_tools(call.tools).converted
  /\ outcome' = IF function_tools_to_openai_session_tools(call.tools).raised = "" THEN "ok"
                ELSE function_tools_to_openai_session_tools(call.tools).raised
  /\ UNCHANGED <<pending, closed, rx, msg, yielded, added, recvLog, call, sent, sentFor,
                 ws, wsCloses, toYield, delivered, wire, tasks, world, router>>

InitTools ==
  /\ pending = EmptyDict
  /\ closed = FALSE
  /\ rx = "open"
  /\ msg = [json |-> "none"]
  /\ yielded = <<>>
  /\ added = EmptyDict
  /\ recvLog = <<>>
  /\ \E n \in 0..MaxTools : \E tools \in [1..n -> Tools] :
       call = [op |-> "function_tools", tools |-> tools]
  /\ sent = <<>>
  /\ sentFor = <<>>
  /\ outcome = "pending"
  /\ ws = "open"
  /\ wsCloses = 0
  /\ toYield = <<>>
  /\ delivered = <<>>
  /\ ret = "none"
  /\ wire = <<>>
  /\ tasks = <<>>
  /\ world = "none"
  /\ router = "none"

SpecTools == InitTools /\ [][ConvertTools]_vars

----------------------------------------------------------------------------
(* OAuthStateStorage: the state tokens kept in Redis *)

MaxCallbacks == 2

\* The tokens secrets.token_urlsafe gives, in the order it gives them.
StateTokens == <<"t1", "t2">>

\* world.redis is the Redis database (key prefix left out), world.created
\* the tokens create_state returned with their users, world.calls the calls
\* of validate_and_consume made by the workers that serve callbacks.

\* create_state(user_id): a new token, stored with setex under its key.
CreateState ==
  /\ call.op = "oauth"
  /\ Cardinality(DOMAIN world.created) < Len(StateTokens)
  /\ \E user_id \in {"u1", "u2"} :
       LET state_token == StateTokens[Cardinality(DOMAIN world.created) + 1] IN
       world' = [world EXCEPT !.redis = Put(@, state_token, user_id),
                              !.created = Put(@, state_token, user_id)]
  /\ UNCHANGED <<pending, closed, rx, msg, yielded, added, recvLog, call, sent, sentFor,
                 outcome, ws, wsCloses, toYield, delivered, ret, wire, tasks, router>>

\* The key expires in Redis (STATE_TTL_SECONDS after setex).
ExpireState ==
  /\ call.op = "oauth"
  /\ \E state_token \in DOMAIN world.redis : world' = [world EXCEPT !.redis = Pop(@, state_token)]
  /\ UNCHANGED <<pending, closed, rx, msg, yielded, added, recvLog, call, sent, sentFor,
                 outcome, ws, wsCloses, toYield, delivered, ret, wire, tasks, router>>

\* validate_and_consume(state_token), up to its redis.get: without a value it
\* returns None; with one it goes on to the delete.
ValidateGet ==
  /\ call.op = "oauth"
  /\ Len(world.calls) < MaxCallbacks
  /\ \E state_token \in {"t1", "t2", "forged"} :
       LET user_id == Get(world.redis, state_token, NoneV) IN
       world' = [world EXCEPT !.calls =
                   Append(@, IF ~Truthy(user_id)
                             THEN [state_token |-> state_token, pc |-> "returned",
                                   user_id |-> NoneV]
                             ELSE [state_token |-> state_token, pc |-> "delete",
                                   user_id |-> user_id])]
  /\ UNCHANGED <<pending, closed, rx, msg, yielded, added, recvLog, call, sent, sentFor,
                 outcome, ws, wsCloses, toYield, delivered, ret, wire, tasks, router>>

\* The rest of validate_and_consume: redis.delete(key), then the user id read
\* before is returned.
ValidateDelete ==
  /\ call.op = "oauth"
  /\ \E c \in DOMAIN world.calls :
       /\ world.calls[c].pc = "delete"
       /\ world' = [world EXCEPT !.redis = Pop(@, world.calls[c].state_token),
                                 !.calls[c].pc = "returned"]
  /\ UNCHANGED <<pending, closed, rx, msg, yielded, added, recvLog, call, sent, sentFor,
                 outcome, ws, wsCloses, toYield, delivered, ret, wire, tasks, router>>

InitOAuth ==
  /\ pending = EmptyDict
  /\ closed = FALSE
  /\ rx = "open"
  /\ msg = [json |-> "none"]
  /\ yielded = <<>>
  /\ added = EmptyDict
  /\ recvLog = <<>>
  /\ call = [op |-> "oauth"]
  /\ sent = <<>>
  /\ sentFor = <<>>
  /\ outcome = "ok"
  /\ ws = "open"
  /\ wsCloses = 0
  /\ toYield = <<>>
  /\ delivered = <<>>
  /\ ret = "none"
  /\ wire = <<>>
  /\ tasks = <<>>
  /\ world = [redis |-> EmptyDict, created |-> EmptyDict, calls |-> <<>>]
  /\ router = "none"

NextOAuth == CreateState \/ ExpireState \/ ValidateGet \/ ValidateDelete

SpecOAuth == InitOAuth /\ [][NextOAuth]_vars

----------------------------------------------------------------------------
(* close() called by several tasks of the event loop *)

MaxClosers == 2

\* A task enters close(): it returns at once when the flag is set; else it
\* calls self._ws.close() and is suspended in the await.
CloseEnter ==
  /\ Len(tasks) < MaxClosers
  /\ IF closed
     THEN /\ tasks' = Append(tasks, [pc |-> "returned"])
          /\ wsCloses' = wsCloses
     ELSE /\ tasks' = Append(tasks, [pc |-> "awaiting"])
          /\ wsCloses' = wsCloses + 1
  /\ UNCHANGED <<pending, closed, rx, msg, yielded, added, recvLog, call, sent, sentFor,
                 outcome, ws, toYield, delivered, ret, wire, world, router>>

\* The await of self._ws.close() ends, with the socket closed or with an
\* exception, and the finally clause sets the flag.
CloseLeave ==
  \E t \in DOMAIN tasks, fails \in BOOLEAN :
    /\ tasks[t].pc = "awaiting"
    /\ closed' = TRUE
    /\ ws' = IF ws = "open" THEN (IF fails THEN "closed_error" ELSE "closed_ok") ELSE ws
    /\ outcome' = IF fails THEN "OSError" ELSE "ok"
    /\ tasks' = [tasks EXCEPT ![t].pc = "returned"]
    /\ UNCHANGED <<pending, rx, msg, yielded, added, recvLog, call, sent, sentFor,
                   wsCloses, toYield, delivered, ret, wire, world, router>>

NextClosers ==
  ReceiveSession \/ YieldRecord \/ EndReceive \/ RemoteClose \/ CloseEnter \/ CloseLeave

SpecClosers == Init /\ [][NextClosers]_vars

----------------------------------------------------------------------------
(* The life of one connection: frames of every kind, the outbound operations
   and close() in any order *)

\* The contents of the caller's outbound calls.
LifeContents ==
  {Content("user", 1, <<TextPart(<<"a">>)>>),
   Content("user", 1, <<FunctionResponsePart("c1", "r1")>>)}

\* The caller runs send_history, send_content or send_realtime.
CallSendHistory ==
  /\ ~closed
  /\ \E history \in {<<content>> : content \in LifeContents} :
       /\ sent' = send_history(history).sent
       /\ sentFor' = send_history(history).sentFor
  /\ outcome' = "ok"
  /\ UNCHANGED apart
  /\ UNCHANGED <<pending, closed, rx, msg, yielded, added, recvLog, call,
                 ws, wsCloses, toYield, delivered>>

CallSendContent ==
  /\ ~closed
  /\ \E content \in LifeContents :
       /\ sent' = send_content(content).sent
       /\ outcome' = IF send_content(content).raised = "" THEN "ok"
                     ELSE send_content(content).raised
  /\ UNCHANGED apart
  /\ UNCHANGED <<pending, closed, rx, msg, yielded, added, recvLog, call, sentFor,
                 ws, wsCloses, toYield, delivered>>

CallSendRealtime ==
  /\ ~closed
  /\ \E input \in {[kind |-> "ActivityStart"], [kind |-> "ActivityEnd"]} :
       /\ sent' = send_realtime(input).sent
       /\ outcome' = IF send_realtime(input).raised = "" THEN "ok"
                     ELSE send_realtime(input).raised
  /\ UNCHANGED apart
  /\ UNCHANGED <<pending, closed, rx, msg, yielded, added, recvLog, call, sentFor,
                 ws, wsCloses, toYield, delivered>>

\* receive() reads a frame while the socket is open.
ReceiveLife ==
  ws = "open" /\ (ReceiveKind \/ ReceiveFunctionArgsDelta \/ ReceiveFunctionArgsDone)

NextLife == ReceiveLife \/ CallSendHistory \/ CallSendContent \/ CallSendRealtime \/ Close

SpecLife == Init /\ [][NextLife]_vars

----------------------------------------------------------------------------
(* Claims on the function-call reconstruction and the router *)

\* The arguments a buffer stands for: its JSON parse, the empty object when it
\* does not parse.
ParsedArguments(buffer) == IF JsonLoads(buffer).ok THEN JsonLoads(buffer).value ELSE {}

\* The item of the frame a step received.
ItemOf(m) == Get(m.event, "item", EmptyDict)

\* C1: when a response.output_item.done frame arrives for a function_call item
\* whose id i was opened by an output_item.added frame (and deltas may have
\* followed), receive() yields exactly one record: not partial, one model-role
\* function-call part with the name of the added frame, the JSON parse of the
\* entry's argument buffer, and the done item's call_id (its id when it has no
\* call_id); afterwards pending has no entry for i.
C1_DoneEmitsOneFunctionCall ==
  [][\A i \in ItemIds :
       (/\ IsFunctionCallItemFrame(msg', "response.output_item.done")
        /\ Get(ItemOf(msg'), "id", NoneV) = i
        /\ i \in DOMAIN added)
       => /\ i \in DOMAIN pending
          /\ Len(yielded') = 1
          /\ yielded'[1].partial = FALSE
          /\ yielded'[1] =
               [LlmResponse EXCEPT !.content =
                  [role |-> "model",
                   parts |-> <<FunctionCallPart(
                                 IF added[i] = NoneV THEN "" ELSE added[i],
                                 ParsedArguments(pending[i].args_buffer),
                                 IF Get(ItemOf(msg'), "call_id", NoneV) = NoneV
                                 THEN i ELSE ItemOf(msg').call_id)>>]]
          /\ i \notin DOMAIN pending'
          /\ rx' = "open"]_vars

\* C1 witness: the done frame of item i1, call id c1, has been answered with the
\* call lookup({"q": "x"}) while another call stays pending.
C1_Witness ==
  /\ IsFunctionCallItemFrame(msg, "response.output_item.done")
  /\ ItemOf(msg).id = "i1"
  /\ yielded = <<[LlmResponse EXCEPT !.content =
                    [role |-> "model",
                     parts |-> <<FunctionCallPart("lookup", {<<"q", "x">>}, "c1")>>]]>>
  /\ DOMAIN pending = {"i2"}

\* C2: the entries of pending are those of the calls that were opened and not
\* yet completed, one per item id; a response.output_item.done frame for a
\* function_call item with no open call (never added, or completed since)
\* yields no record and leaves pending as it was.
C2_EntryConsumedAtMostOnce ==
  [][/\ DOMAIN pending' = DOMAIN added'
     /\ (/\ IsFunctionCallItemFrame(msg', "response.output_item.done")
         /\ ItemKey(ItemOf(msg')) \notin DOMAIN added)
        => (yielded' = <<>> /\ pending' = pending /\ rx' = "open")]_vars

\* C2 witness: a done frame for i1, which has no entry, yielded nothing while
\* the entry of i2 is still there.
C2_Witness ==
  /\ IsFunctionCallItemFrame(msg, "response.output_item.done")
  /\ ItemOf(msg).id = "i1"
  /\ yielded = <<>>
  /\ DOMAIN pending = {"i2"}

IsArgsFrame(m) ==
  \/ IsFrame(m, "response.function_call_arguments.delta")
  \/ IsFrame(m, "response.function_call_arguments.done")

\* C3: an argument delta or argument done frame whose item id has no entry in
\* pending yields no record, raises nothing and leaves pending unchanged.
C3_ArgsForUnknownIdIgnored ==
  [][(IsArgsFrame(msg') /\ EventKey(msg'.event) \notin DOMAIN pending)
     => (yielded' = <<>> /\ rx' = "open" /\ pending' = pending)]_vars

\* C3 witness: a delta for the unknown id i9 has been received while i1 is
\* pending.
C3_Witness ==
  /\ IsFrame(msg, "response.function_call_arguments.delta")
  /\ Get(msg.event, "item_id", NoneV) = "i9"
  /\ Get(msg.event, "delta", <<>>) = <<CLOSEX>>
  /\ yielded = <<>>
  /\ rx = "open"
  /\ DOMAIN pending = {"i1"}

\* The kinds _register_event_handlers registers a handler for.
RegisteredKinds == {Registrations[n][1] : n \in 1..Len(Registrations)}

\* C4: a frame whose type has no registered handler yields no record, raises
\* nothing and leaves pending and the closed flag unchanged; receive() stays
\* ready for the next frame.
C4_UnregisteredKindIgnored ==
  [][(/\ msg'.json = "object"
      /\ Get(msg'.event, "type", NoneV) \notin RegisteredKinds \cup {NoneV})
     => (/\ yielded' = <<>>
         /\ rx' = "open"
         /\ pending' = pending
         /\ closed' = closed)]_vars

\* C4 witness: a session.created frame went by while a call is pending.
C4_Witness ==
  /\ IsFrame(msg, "session.created")
  /\ yielded = <<>>
  /\ rx = "open"
  /\ DOMAIN pending = {"i1"}

----------------------------------------------------------------------------
(* Claims on the text stream *)

IsTextDelta(e) ==
  IsFrame(e.msg, "response.output_text.delta") /\ TruthyText(Get(e.msg.event, "delta", <<>>))
IsTextDone(e) ==
  IsFrame(e.msg, "response.output_text.done") /\ TruthyText(Get(e.msg.event, "text", <<>>))

\* The records yielded for the messages i..j of the log, in order.
RECURSIVE YieldedBetween(_, _)
YieldedBetween(i, j) ==
  IF i > j THEN <<>> ELSE YieldedBetween(i, j - 1) \o recvLog[j].responses

\* C5: for every run of response.output_text.delta frames with non-empty deltas
\* followed by a response.output_text.done frame with non-empty text T, the
\* records yielded are, in order, one partial model text record per delta and
\* then one non-partial model text record with text T.
C5_TextDoneIsAuthoritative ==
  \A i \in 1..Len(recvLog) : \A j \in i..Len(recvLog) :
    ((\A k \in i..(j - 1) : IsTextDelta(recvLog[k])) /\ IsTextDone(recvLog[j]))
    => YieldedBetween(i, j) =
         [k \in 1..(j - i + 1) |->
            IF k <= j - i
            THEN TextResponse("model", recvLog[i + k - 1].msg.event.delta, TRUE)
            ELSE TextResponse("model", recvLog[j].msg.event.text, FALSE)]

\* C5 witness: delta "He", delta "llo", done "Hi" were received and answered
\* with partial "He", partial "llo", final "Hi": the text of done is not the
\* concatenation of the deltas.
C5_Witness ==
  /\ Len(recvLog) = 3
  /\ IsTextDelta(recvLog[1]) /\ recvLog[1].msg.event.delta = <<"He">>
  /\ IsTextDelta(recvLog[2]) /\ recvLog[2].msg.event.delta = <<"llo">>
  /\ IsTextDone(recvLog[3]) /\ recvLog[3].msg.event.text = <<"Hi">>
  /\ YieldedBetween(1, 3) = <<TextResponse("model", <<"He">>, TRUE),
                              TextResponse("model", <<"llo">>, TRUE),
                              TextResponse("model", <<"Hi">>, FALSE)>>

----------------------------------------------------------------------------
(* Claims on send_history and send_content *)

Returned(op) == call.op = op /\ outcome # "pending"

\* The frames send_history wrote while replaying item j, in order.
RECURSIVE FramesOfItem(_, _)
FramesOfItem(j, n) ==
  IF n = 0 THEN <<>>
  ELSE IF sentFor[n] = j THEN Append(FramesOfItem(j, n - 1), sent[n])
  ELSE FramesOfItem(j, n - 1)
FramesFor(j) == FramesOfItem(j, Len(sent))

\* The non-empty texts of the parts of an item, in part order.
TextsOf(content) ==
  LET kept == SelectSeq(Parts(content), HasText) IN [k \in 1..Len(kept) |-> kept[k].text]

\* The content entries of a sequence of message frames, in order.
RECURSIVE ContentEntries(_)
ContentEntries(frames) ==
  IF frames = <<>> THEN <<>>
  ELSE frames[1].item.content \o ContentEntries(Tail(frames))

StartsWithFunctionResponse(content) ==
  Parts(content) # <<>> /\ IsFunctionResponse(Parts(content)[1])

\* C6: every frame send_history writes is a conversation.item.create frame, so
\* no response.create is ever sent, whatever the history.
C6_HistoryNeverStartsResponse ==
  Returned("send_history") =>
    \A k \in 1..Len(sent) : sent[k].type = "conversation.item.create"

\* C6 witness: a history of two items ending with a user text has been
\* replayed as two frames.
C6_Witness ==
  /\ Returned("send_history")
  /\ Len(call.history) = 2
  /\ call.history[2] = [role |-> "user", parts |-> <<TextPart(<<"a">>)>>]
  /\ Len(sent) = 2

C8_UserTextsInOneMessage ==
  Returned("send_history") =>
    /\ \A j \in 1..Len(call.history) :
         LET item == call.history[j] IN
         /\ Parts(item) = <<>> => FramesFor(j) = <<>>
         /\ (item.role = "user" /\ Parts(item) # <<>> /\ ~StartsWithFunctionResponse(item))
            => FramesFor(j) =
                 IF TextsOf(item) = <<>> THEN <<>>
                 ELSE <<[type |-> "conversation.item.create",
                         item |-> [type |-> "message", role |-> "user",
                                   content |-> [k \in 1..Len(TextsOf(item)) |->
                                      [type |-> "input_text", text |-> TextsOf(item)[k]]]]]>>
    /\ \A k \in 1..Len(sent) : \A l \in k..Len(sent) : sentFor[k] <= sentFor[l]
    /\ \A k \in 1..Len(sent) : sentFor[k] \in 1..Len(call.history)

\* C8 witness: the user item with texts "a" and "b", followed by an item with
\* no parts, has been replayed as one frame listing "a" then "b".
C8_Witness ==
  /\ Returned("send_history")
  /\ call.history = <<[role |-> "user", parts |-> <<TextPart(<<"a">>), TextPart(<<"b">>)>>],
                      [role |-> "user"]>>
  /\ sent = <<[type |-> "conversation.item.create",
               item |-> [type |-> "message", role |-> "user",
                         content |-> <<[type |-> "input_text", text |-> <<"a">>],
                                       [type |-> "input_text", text |-> <<"b">>]>>]]>>

\* The one user message that re-expresses the function responses of an item.
FunctionResponsesAsUserText(content) ==
  LET responses == SelectSeq(Parts(content), IsFunctionResponse) IN
  <<[type |-> "conversation.item.create",
     item |-> [type |-> "message", role |-> "user",
               content |-> [k \in 1..Len(responses) |->
                  [type |-> "input_text", text |-> FunctionResponseText(responses[k])]]]]>>

NoFunctionCallOutput ==
  \A k \in 1..Len(sent) : sent[k].item.type # "function_call_output"

\* C9 as stated: every item carrying a function-response part, at whatever
\* position, is replayed as exactly one user message whose entries are the
\* serialized payloads of its function responses, in part order, and no
\* function_call_output frame is written.
C9_Original ==
  Returned("send_history") =>
    /\ \A j \in 1..Len(call.history) :
         (\E n \in 1..Len(Parts(call.history[j])) :
            IsFunctionResponse(Parts(call.history[j])[n]))
         => FramesFor(j) = FunctionResponsesAsUserText(call.history[j])
    /\ NoFunctionCallOutput

\* C9 amended: every item whose first part is a function response is replayed
\* as exactly one user message whose entries are the serialized payloads of
\* its function responses, tagged input_text, in part order, and no
\* function_call_output frame is written.
C9_FirstPartFunctionResponse ==
  Returned("send_history") =>
    /\ \A j \in 1..Len(call.history) :
         StartsWithFunctionResponse(call.history[j])
         => FramesFor(j) = FunctionResponsesAsUserText(call.history[j])
    /\ NoFunctionCallOutput

\* C9 witness: the item [response r1, text "a", response rX] has been replayed
\* as one user message with json.dumps(r1) and str(rX).
C9_Witness ==
  /\ Returned("send_history")
  /\ call.history = <<[role |-> "user",
                       parts |-> <<FunctionResponsePart("c1", "r1"), TextPart(<<"a">>),
                                   FunctionResponsePart("c3", "rX")>>]>>
  /\ sent = <<[type |-> "conversation.item.create",
               item |-> [type |-> "message", role |-> "user",
                         content |-> <<[type |-> "input_text", text |-> <<"json", "r1">>],
                                       [type |-> "input_text", text |-> <<"str", "rX">>]>>]]>>

\* C10: send_content on a content whose parts are empty or absent fails its
\* assertion and writes no frame.
C10_EmptyContentRejected ==
  (Returned("send_content") /\ Parts(call.content) = <<>>)
  => (outcome = "AssertionError" /\ sent = <<>>)

\* C10 witness: send_content has failed on a content with parts = [].
C10_Witness ==
  /\ Returned("send_content")
  /\ call.content = [role |-> "user", parts |-> <<>>]
  /\ outcome = "AssertionError"
  /\ sent = <<>>

----------------------------------------------------------------------------
(* Claims about send_content *)

\* The function-response parts of a content, in part order.
FunctionResponsesOf(content) == SelectSeq(Parts(content), IsFunctionResponse)

\* C11 as stated: when the first part is a function response, send_content
\* writes one function_call_output frame per function-response part, in part
\* order and with the part's call id, and then exactly one response.create as
\* the last frame.
C11_Original ==
  (Returned("send_content") /\ StartsWithFunctionResponse(call.content))
  => LET responses == FunctionResponsesOf(call.content) IN
     /\ Len(sent) = Len(responses) + 1
     /\ \A k \in 1..Len(responses) :
          /\ sent[k].type = "conversation.item.create"
          /\ sent[k].item.type = "function_call_output"
          /\ sent[k].item.call_id = responses[k].id
     /\ sent[Len(sent)] = ResponseCreate

\* C12: when the first part is not a function response, send_content writes
\* the user message of all the non-empty texts, in part order, and then
\* response.create when there is such a text, and no frame otherwise;
\* a response.create of send_content always follows an item frame.
C12_TextThenResponseOrNothing ==
  Returned("send_content") =>
    /\ ~StartsWithFunctionResponse(call.content)
       => sent = IF TextsOf(call.content) # <<>>
                 THEN <<Message("user", InputTexts(TextsOf(call.content))), ResponseCreate>>
                 ELSE <<>>
    /\ \A k \in 1..Len(sent) :
         sent[k] = ResponseCreate
         => (k > 1 /\ sent[k - 1].type = "conversation.item.create")

\* C12 witness: send_content on [inline data, text "a", text ""] has sent the
\* message "a" and response.create.
C12_Witness ==
  /\ Returned("send_content")
  /\ Len(Parts(call.content)) = 3
  /\ ~StartsWithFunctionResponse(call.content)
  /\ TextsOf(call.content) = <<(<<"a">>)>>
  /\ sent = <<Message("user", <<InputText(<<"a">>)>>), ResponseCreate>>

----------------------------------------------------------------------------
(* Claims about send_realtime *)

C14_UnsupportedInputRejected ==
  (/\ Returned("send_realtime")
   /\ call.input.kind \notin {"Blob", "ActivityStart", "ActivityEnd"})
  => (outcome = "ValueError" /\ sent = <<>>)

\* C14 witness: send_realtime on a string has raised.
C14_Witness ==
  /\ Returned("send_realtime")
  /\ call.input.kind = "str"
  /\ outcome # "ok"

----------------------------------------------------------------------------
(* Claims about a session *)

\* C15: the first close() calls the socket's close() once; every later
\* close() calls nothing, raises nothing and changes nothing; the closed flag,
\* once set, stays set.
C15_CloseIdempotent ==
  [][/\ closed => closed'
     /\ (call' # call /\ call'.op = "close" /\ call'.n = 1)
        => (wsCloses' = wsCloses + 1 /\ closed')
     /\ (call' # call /\ call'.op = "close" /\ call'.n > 1)
        => (/\ outcome' = "ok"
            /\ UNCHANGED <<wsCloses, closed, ws, rx, pending, sent>>)
     /\ wsCloses' <= 1]_vars

\* C15 witness: close() has been called twice, the first call having raised,
\* and the socket's close() once.
C15_Witness ==
  /\ call.op = "close"
  /\ call.n = 2
  /\ wsCloses = 1
  /\ closed
  /\ ws = "closed_error"

\* The records the handler of a message returns; none for a message that is
\* not JSON.
HandlerRecords(m) ==
  IF m.json = "invalid" THEN <<>> ELSE dispatch(pending, m).responses

\* The records of the first n messages of the log, in arrival order.
RECURSIVE RecordsUpTo(_, _)
RecordsUpTo(log, n) ==
  IF n = 0 THEN <<>> ELSE RecordsUpTo(log, n - 1) \o HandlerRecords(log[n].msg)

\* C16: the records given to the consumer, followed by those receive() holds
\* to yield, are the records the handlers returned for the messages read, in
\* arrival order; and a message is read only when every record of the
\* messages before it has been given to the consumer.
C16_RecordsInArrivalOrder ==
  [][/\ delivered' \o toYield' = RecordsUpTo(recvLog', Len(recvLog'))
     /\ recvLog' # recvLog => delivered = RecordsUpTo(recvLog, Len(recvLog))]_vars

\* C16 witness: three messages have been read and the records of the first
\* two given to the consumer, the record of the third waiting.
C16_Witness ==
  /\ Len(recvLog) = 3
  /\ Len(delivered) = 2
  /\ Len(toYield) = 1
  /\ delivered[1] # delivered[2]

\* C17: reading a message that is not JSON yields no record, raises nothing
\* and changes nothing of the connection; the messages read after it get the
\* records of their handlers.
C17_InvalidJsonDropped ==
  [][(recvLog' # recvLog /\ msg'.json = "invalid")
     => /\ yielded' = <<>>
        /\ toYield' = <<>>
        /\ rx' = "open"
        /\ UNCHANGED <<pending, closed, ws, wsCloses, delivered, sent, outcome>>
        /\ \A j \in 1..Len(recvLog) :
             recvLog[j].msg.json = "invalid" => recvLog[j].responses = <<>>]_vars

\* C17 witness: a message that is not JSON was read, then a text delta, whose
\* record the consumer has been given.
C17_Witness ==
  /\ Len(recvLog) = 2
  /\ recvLog[1].msg.json = "invalid"
  /\ IsFrame(recvLog[2].msg, "response.output_text.delta")
  /\ delivered = <<TextResponse("model", <<"He">>, TRUE)>>
  /\ rx = "open"

\* C18: once the transport is closed receive() ends: without an error after a
\* closing handshake, with ConnectionClosed otherwise; by then the consumer
\* has been given every record of the messages read, and is given none later.
C18_ReceiveEndsOnClosure ==
  /\ [](rx \in {"ended", "ConnectionClosed"}
        => /\ ws # "open"
           /\ rx = "ended" <=> ws = "closed_ok"
           /\ toYield = <<>>
           /\ delivered = RecordsUpTo(recvLog, Len(recvLog)))
  /\ [][rx # "open" => UNCHANGED <<rx, delivered, recvLog>>]_vars
  /\ (ws # "open") ~> (rx # "open")

\* C18 witness: the transport broke with no call of close(), and receive()
\* has raised after the consumer was given the records of two messages.
C18_Witness ==
  /\ rx = "ConnectionClosed"
  /\ wsCloses = 0
  /\ Len(delivered) = 2

\* The code an error record carries for a frame: error.code, or the default
\* when it is absent, None or empty.
ErrorCodeOf(event) ==
  LET err == Get(event, "error", EmptyDict) IN
  IF "code" \in DOMAIN err /\ Truthy(err.code) THEN err.code ELSE "OPENAI_ERROR"

ErrorMessageOf(event) ==
  LET err == Get(event, "error", EmptyDict) IN
  IF "message" \in DOMAIN err THEN err.message ELSE NoneV

\* C19 as stated: an error frame yields exactly one record, with the code of
\* the error (the default code when absent or empty) and its message; it
\* leaves the socket open, the closed flag as it is, and receive() running.
C19_Original ==
  [][(recvLog' # recvLog /\ IsFrame(msg', "error"))
     => /\ yielded' = <<[LlmResponse EXCEPT !.error_code = ErrorCodeOf(msg'.event),
                                           !.error_message = ErrorMessageOf(msg'.event)]>>
        /\ rx' = "open"
        /\ UNCHANGED <<closed, ws, wsCloses>>]_vars

----------------------------------------------------------------------------
(* Claims about the full arguments of a call *)

\* A function_call_arguments.done frame that carries a string for the pending
\* item id k.
IsArgsDoneFor(m, k, p) ==
  /\ IsFrame(m, "response.function_call_arguments.done")
  /\ EventKey(m.event) = k
  /\ k \in DOMAIN p
  /\ Get(m.event, "arguments", NoneS) # NoneS

\* C20: a function_call_arguments.done frame for a pending item id makes the
\* string it carries the argument buffer of the entry, whatever the buffer
\* held, and touches no other entry; the output_item.done frame that follows
\* it reports the arguments parsed from that string.
C20_ArgsDoneReplacesBuffer ==
  [][\A k \in ItemIds :
       /\ IsArgsDoneFor(msg', k, pending)
          => /\ pending' = [pending EXCEPT ![k].args_buffer = msg'.event.arguments]
             /\ yielded' = <<>>
             /\ rx' = "open"
       /\ (/\ IsArgsDoneFor(msg, k, pending)
           /\ IsFunctionCallItemFrame(msg', "response.output_item.done")
           /\ ItemKey(ItemOf(msg')) = k)
          => /\ Len(yielded') = 1
             /\ yielded'[1].content.parts[1].args =
                  ParsedArguments(msg.event.arguments)]_vars

\* C20 witness: the frame carrying the empty string has emptied the buffer of
\* item i1, which held at least the initial arguments.
C20_Witness ==
  /\ IsFrame(msg, "response.function_call_arguments.done")
  /\ EventKey(msg.event) = "i1"
  /\ msg.event.arguments = <<>>
  /\ "i1" \in DOMAIN pending
  /\ pending["i1"].args_buffer = <<>>

----------------------------------------------------------------------------
(* Claims about the completion of a call *)

\* C21: when a response.output_item.done frame arrives for a pending call
\* whose argument buffer is not a JSON document, receive() still yields
\* exactly one function-call record, with the name of the entry and empty
\* arguments, raises nothing, and the entry is removed.
C21_BadArgumentsStillReported ==
  [][\A k \in ItemIds :
       (/\ IsFunctionCallItemFrame(msg', "response.output_item.done")
        /\ ItemKey(ItemOf(msg')) = k
        /\ k \in DOMAIN pending
        /\ ~JsonLoads(pending[k].args_buffer).ok)
       => /\ Len(yielded') = 1
          /\ yielded'[1].content.role = "model"
          /\ Len(yielded'[1].content.parts) = 1
          /\ yielded'[1].content.parts[1].kind = "function_call"
          /\ yielded'[1].content.parts[1].name = pending[k].name
          /\ yielded'[1].content.parts[1].args = {}
          /\ rx' = "open"
          /\ pending' = Pop(pending, k)]_vars

\* C21 witness: the call of item i2 has been reported with empty arguments,
\* and the call of item i1 waits with a buffer that is not a JSON document.
C21_Witness ==
  /\ IsFunctionCallItemFrame(msg, "response.output_item.done")
  /\ ItemKey(ItemOf(msg)) = "i2"
  /\ Len(yielded) = 1
  /\ yielded[1].content.parts[1].args = {}
  /\ DOMAIN pending = {"i1"}
  /\ pending["i1"].args_buffer = <<OPENQ>>

----------------------------------------------------------------------------
(* Claims about the end of a response *)

\* The usage a response.done frame carries, None when it carries none.
UsageOf(event) == Get(Get(event, "response", EmptyDict), "usage", NoneV)

\* C22 as stated: a response.done frame yields exactly one record, flagged
\* turn-complete, with no content and with the usage of the frame (None when
\* it has none); no frame of another kind yields a turn-complete record.
C22_Original ==
  [][/\ IsFrame(msg', "response.done")
        => yielded' = <<[LlmResponse EXCEPT !.turn_complete = TRUE,
                                            !.custom_metadata = UsageOf(msg'.event)]>>
     /\ \A k \in 1..Len(yielded') :
          yielded'[k].turn_complete => IsFrame(msg', "response.done")]_vars

----------------------------------------------------------------------------
(* Claims about _deep_merge *)

\* The key paths of a mapping: the sequences of keys that lead to a value.
RECURSIVE Paths(_)
Paths(m) ==
  UNION {{<<k>>} \cup (IF IsDict(m[k]) THEN {<<k>> \o q : q \in Paths(m[k].d)} ELSE {}) :
           k \in DOMAIN m}

\* The value a mapping holds at a key path.
RECURSIVE At(_, _)
At(m, path) == IF Len(path) = 1 THEN m[path[1]] ELSE At(m[path[1]].d, Tail(path))

\* What a mapping says about a key path: the value at the path; "absent" when
\* a key of the path is missing; None when a key on the way holds None;
\* "replaced" when a key on the way holds a value that is neither a dict nor
\* None.
RECURSIVE Walk(_, _)
Walk(m, path) ==
  IF path[1] \notin DOMAIN m THEN [t |-> "absent"]
  ELSE IF Len(path) = 1 THEN m[path[1]]
  ELSE IF IsDict(m[path[1]]) THEN Walk(m[path[1]].d, Tail(path))
  ELSE IF m[path[1]] = NoneJ THEN NoneJ
  ELSE [t |-> "replaced"]

\* The merged mapping holds at the path the value base holds there.
Kept(path) == path \in Paths(ret) /\ At(ret, path) = At(call.base, path)

\* The example of the documentation is merged as documented.
ExampleMerged ==
  (Returned("_deep_merge") /\ call.base = ExampleBase /\ call.extra = ExampleExtra)
  => ret = [a |-> Dict([b |-> Leaf(1), c |-> Leaf(2), d |-> Leaf(3)])]

----------------------------------------------------------------------------
(* Claims about connect *)

\* The session.update frame has been written; the session it carries.
Configured == call.op = "connect" /\ wire # <<>>
SessionSent == wire[1].frame.session

\* The layers of the request: what the provider returned when it returned a
\* dict, what the runtime context holds when it is a dict, the tools converted.
ProviderLayer ==
  IF call.prov.t = "returns" /\ IsDict(call.prov.v) THEN call.prov.v.d ELSE EmptyDict
RuntimeLayer == IF IsDict(call.runtime_ctx) THEN call.runtime_ctx.d ELSE EmptyDict
ConvertedTools == function_tools_to_openai_session_tools(call.tools).converted

\* The key of the path is set by the static layer of the request.
SetStatically(path) ==
  \/ path[1] = "instructions" /\ Truthy(call.system_instruction)
  \/ path[1] = "tools" /\ ConvertedTools # <<>>

C26_ToolChoiceDefaultsToAuto ==
  Configured =>
    /\ "tool_choice" \in DOMAIN SessionSent
    /\ SessionSent["tool_choice"] =
         IF Get(RuntimeLayer, "tool_choice", NoneJ) # NoneJ
         THEN RuntimeLayer["tool_choice"]
         ELSE IF Get(ProviderLayer, "tool_choice", NoneJ) # NoneJ
         THEN ProviderLayer["tool_choice"]
         ELSE Leaf("auto")

\* C26 witness: the provider sets tool_choice, the runtime context sets it
\* to None, and the session has the provider's.
C26_Witness ==
  /\ Configured
  /\ ret = "connection"
  /\ Get(ProviderLayer, "tool_choice", NoneJ) = Leaf("required")
  /\ "tool_choice" \in DOMAIN RuntimeLayer
  /\ RuntimeLayer["tool_choice"] = NoneJ
  /\ SessionSent["tool_choice"] = Leaf("required")

\* C27: the first frame on the socket is the session.update of connect with
\* the session it built, and a caller that has been handed the connection
\* finds exactly one session.update written, so every frame of send_history,
\* send_content and send_realtime comes after it.
C27_SessionUpdateFirst ==
  /\ wire # <<>>
     => /\ wire[1].by = "connect"
        /\ wire[1].frame = session_update(call)
  /\ ret \in {"connection", "exited"}
     => Cardinality({k \in DOMAIN wire : wire[k].frame.type = "session.update"}) = 1

\* C27 witness: the caller has written the frames of a send_content after
\* the session.update.
C27_Witness ==
  /\ call.op = "connect"
  /\ Len(wire) = 3
  /\ wire[1].frame.type = "session.update"
  /\ wire[2].by = "send_content"
  /\ wire[3].frame = ResponseCreate

----------------------------------------------------------------------------
(* Claims about the router, connections side by side and concurrent sends *)

\* The register calls made for an event type, as positions of r.registered.
RegisteredFor(type) ==
  {i \in DOMAIN router.registered : router.registered[i][1] = type}

\* C28: a dispatch of a frame of kind k invokes the handler of the last
\* register call made for k before it, once, and no other handler, and
\* returns what that handler returns; when no register call was made for k
\* it invokes nothing and returns the empty list.
C28_LastRegistrationWins ==
  [][(/\ call.op = "router"
      /\ router'.registered = router.registered
      /\ router'.last.t = "dispatched"
      /\ router'.last.frame.json = "object"
      /\ "type" \in DOMAIN router'.last.frame.event)
     => LET k == router'.last.frame.event.type IN
        IF RegisteredFor(k) = {}
        THEN router'.last.invoked = <<>> /\ router'.last.returned = <<>>
        ELSE LET n == CHOOSE i \in RegisteredFor(k) : \A j \in RegisteredFor(k) : j <= i
                 handler == router.registered[n][2]
             IN /\ router'.last.invoked = <<handler>>
                /\ router'.last.returned = <<HandlerResponse(handler, k)>>]_vars

\* C28 witness: two handlers were registered for the same kind, another for
\* another kind, and a frame of the first kind went to the second handler.
C28_Witness ==
  /\ call.op = "router"
  /\ router.registered = << <<"error", "h1">>, <<"custom.kind", "h1">>, <<"error", "h2">> >>
  /\ router.last.t = "dispatched"
  /\ router.last.frame = [json |-> "object", event |-> [type |-> "error"]]
  /\ router.last.invoked = <<"h2">>

\* What connection c owns in the world w: its pending map, its closed flag
\* and its socket.
Owned(w, c) ==
  [pending |-> w.dicts[w.conns[c]._pending_func_calls],
   closed |-> w.conns[c]._closed,
   socket |-> w.sockets[w.conns[c]._ws]]

\* C29: a frame processed on a connection and an operation invoked on it
\* (send, close) leave the pending map, the closed flag and the socket of
\* every other connection as they were.
C29_ConnectionsIsolated ==
  [][call.op = "world"
     => \A c \in DOMAIN world.conns :
          world'.last.conn # c => Owned(world', c) = Owned(world, c)]_vars

\* C29 witness: A holds a pending call, has written to its socket and is
\* closed, while B, built before, holds nothing, has written nothing and is
\* open.
C29_Witness ==
  /\ call.op = "world"
  /\ DOMAIN world.conns = {"A", "B"}
  /\ world.last.conn = "A"
  /\ "i1" \in DOMAIN Owned(world, "A").pending
  /\ Owned(world, "A").socket = [state |-> "closed", written |-> 2, closes |-> 1]
  /\ Owned(world, "A").closed
  /\ Owned(world, "B") = [pending |-> EmptyDict, closed |-> FALSE,
                          socket |-> [state |-> "open", written |-> 0, closes |-> 0]]

\* The positions of the wire written by task t.
WrittenBy(t) == {k \in DOMAIN wire : wire[k].by = t}

\* C30 as stated: the frames one operation writes are contiguous on the
\* socket; no frame of the other operation lies between two of them.
C30_Original ==
  call.op = "tasks"
  => \A t \in DOMAIN tasks :
       \A i \in WrittenBy(t), j \in WrittenBy(t) :
         \A k \in i..j : k \in WrittenBy(t)

----------------------------------------------------------------------------
(* Claims on the end of a connection, the tool schema and the OAuth state *)

\* receive() has found the transport closed.
ClosureDetected == rx \in {"ended", "ConnectionClosed"}

\* C31 as stated: once receive() has detected a remote closure, the socket is
\* closed and the closed flag is set.
C31_Original == ClosureDetected => (ws # "open" /\ closed)

\* C31 amended: once receive() has detected a remote closure the socket is
\* closed, by the remote side and not by receive(): detecting the closure
\* neither sets the closed flag nor calls the socket's close(), and the flag
\* is set only by a call of close().
C31_ClosureLeavesFlagToClose ==
  /\ [](ClosureDetected => ws # "open")
  /\ [](closed => CloseCalls >= 1)
  /\ [][(~ClosureDetected /\ ClosureDetected') => UNCHANGED <<closed, wsCloses, ws>>]_vars

\* C31 witness: receive() has ended on a closing handshake of the remote
\* side, no close() was called, and the flag is not set.
C31_Witness ==
  /\ rx = "ended"
  /\ ws = "closed_ok"
  /\ CloseCalls = 0
  /\ ~closed
  /\ Len(recvLog) >= 1

\* The function declarations of a list of tools, in order.
RECURSIVE DeclarationsOf(_)
DeclarationsOf(tools) ==
  IF tools = <<>> THEN <<>> ELSE tools[1].function_declarations \o DeclarationsOf(Tail(tools))

\* The JSON schema keeps what the schema holds: a dict as it is; of a Schema
\* object the names of the properties, each converted in its turn, the item
\* schema converted, the enum values and the required list.
RECURSIVE Converted(_, _)
Converted(schema, json) ==
  IF schema = NoneD THEN json = EmptyDict
  ELSE IF schema.kind = "dict" THEN json = schema.json
  ELSE /\ schema.properties # EmptyDict
          => /\ "properties" \in DOMAIN json
             /\ DOMAIN json["properties"] = DOMAIN schema.properties
             /\ \A key \in DOMAIN schema.properties :
                  Converted(schema.properties[key], json["properties"][key])
       /\ schema.items # NoneD
          => "items" \in DOMAIN json /\ Converted(schema.items, json["items"])
       /\ schema.enum # <<>> => "enum" \in DOMAIN json /\ json["enum"] = schema.enum
       /\ schema.required # <<>>
          => "required" \in DOMAIN json /\ json["required"] = schema.required

\* C32 as stated: the conversion returns one entry per function declaration
\* of the tools, in input order, with the name and the description of the
\* declaration and its parameters converted ({'type': 'object'} when it has
\* none); the converted schema keeps property names, item schema, enum values
\* and required list at every depth.
C32_Original ==
  Returned("function_tools")
  => /\ outcome = "ok"
     /\ LET decls == DeclarationsOf(call.tools) IN
        /\ Len(ret) = Len(decls)
        /\ \A k \in 1..Len(decls) :
             /\ ret[k].type = "function"
             /\ ret[k].name = decls[k].name
             /\ ret[k].description = decls[k].description
             /\ IF decls[k].parameters = NoneD THEN ret[k].parameters = [type |-> "object"]
                ELSE Converted(decls[k].parameters, ret[k].parameters)

\* The calls of validate_and_consume with the token that returned a user id.
Accepted(state_token) ==
  {c \in DOMAIN world.calls :
     /\ world.calls[c].state_token = state_token
     /\ world.calls[c].pc = "returned"
     /\ world.calls[c].user_id # NoneV}

\* C33 as stated: of the calls of validate_and_consume with a token that
\* create_state(u) returned at most one returns u and the others None; a
\* token never created returns None.
C33_Original ==
  call.op = "oauth"
  => /\ \A state_token \in DOMAIN world.created :
          /\ Cardinality(Accepted(state_token)) <= 1
          /\ \A c \in Accepted(state_token) :
               world.calls[c].user_id = world.created[state_token]
     /\ \A state_token \in {"t1", "t2", "forged"} \ DOMAIN world.created :
          Accepted(state_token) = {}

----------------------------------------------------------------------------
(* Claims on the argument buffer, the registered kinds and the pending map *)

\* The buffer of a pending call grows by the delta of a frame for its id.
DeltaAppended ==
  (/\ IsFrame(msg', "response.function_call_arguments.delta")
   /\ EventKey(msg'.event) \in DOMAIN pending
   /\ Get(msg'.event, "delta", <<>>) # NoneS)
  => pending' = [pending EXCEPT ![EventKey(msg'.event)].args_buffer =
                                   @ \o Get(msg'.event, "delta", <<>>)]

\* The call reported at output_item.done has the arguments parsed from the
\* buffer of its entry.
BufferReported ==
  (/\ IsFunctionCallItemFrame(msg', "response.output_item.done")
   /\ ItemKey(ItemOf(msg')) \in DOMAIN pending)
  => /\ Len(yielded') = 1
     /\ yielded'[1].content.parts[1].args =
          ParsedArguments(pending[ItemKey(ItemOf(msg'))].args_buffer)

\* C34 as stated: the buffer of a pending call starts as the arguments string
\* of its output_item.added frame, the empty string when the frame carries
\* empty or no arguments, and grows by every delta received for the item id,
\* in arrival order; output_item.done reports the arguments parsed from it.
C34_Original ==
  [][/\ IsFunctionCallItemFrame(msg', "response.output_item.added")
        => LET arguments == Get(ItemOf(msg'), "arguments", NoneS)
               k == ItemKey(ItemOf(msg'))
           IN /\ k \in DOMAIN pending'
              /\ pending'[k].args_buffer =
                   IF arguments \in {NoneS, <<>>} THEN <<>> ELSE arguments
     /\ DeltaAppended
     /\ BufferReported]_vars

\* C35 as stated: a frame of a kind the connection registers a handler for is
\* dispatched without an exception, and receive() goes on.
C35_Original ==
  [][(/\ msg'.json = "object"
      /\ Get(msg'.event, "type", NoneV) \in RegisteredKinds)
     => rx' = "open"]_vars

\* C36 as stated: a decoded frame that is a mapping without a type or with a
\* type outside the lookup table, or that is no mapping, yields no record and
\* raises nothing from receive().
C36_Original ==
  [][(\/ msg'.json = "scalar"
      \/ /\ msg'.json = "object"
         /\ Get(msg'.event, "type", NoneV) \notin EventTypeToModel)
     => (yielded' = <<>> /\ rx' = "open")]_vars

\* The item of the frame is no function call.
OtherItem(m) == Get(Get(m.event, "item", EmptyDict), "type", NoneV) # "function_call"

\* C37: output_item.added, function_call_arguments.delta and
\* function_call_arguments.done frames yield no record; a record with a
\* function call is yielded only for a response.output_item.done frame and is
\* not flagged partial; output_item.added and output_item.done frames whose
\* item is no function call yield nothing and leave the pending map as it was.
C37_EmissionDeferred ==
  [][/\ (\/ IsFrame(msg', "response.output_item.added")
         \/ IsFrame(msg', "response.function_call_arguments.delta")
         \/ IsFrame(msg', "response.function_call_arguments.done"))
        => yielded' = <<>>
     /\ \A k \in 1..Len(yielded') :
          (\E j \in 1..Len(yielded'[k].content.parts) :
             IsFunctionCall(yielded'[k].content.parts[j]))
          => /\ IsFrame(msg', "response.output_item.done")
             /\ yielded'[k].partial = FALSE
     /\ (/\ \/ IsFrame(msg', "response.output_item.added")
            \/ IsFrame(msg', "response.output_item.done")
         /\ OtherItem(msg'))
        => (yielded' = <<>> /\ pending' = pending)]_vars

\* C37 witness: the call of item i2 was opened, its arguments came in a delta
\* frame, and it has been reported for its done frame, while a done frame
\* earlier on for a message item reported nothing.
C37_Witness ==
  /\ IsFunctionCallItemFrame(msg, "response.output_item.done")
  /\ ItemOf(msg).id = "i2"
  /\ Len(yielded) = 1
  /\ IsFunctionCall(yielded[1].content.parts[1])
  /\ yielded[1].content.parts[1].args = {<<"q", "x">>}
  /\ ~yielded[1].partial
  /\ "i1" \in DOMAIN pending

\* A task is suspended in the await of close().
CloseAwaited == \E t \in DOMAIN tasks : tasks[t].pc = "awaiting"

\* C38 as stated: a close() that starts while another close() is still
\* awaiting the closure of the socket does not call the socket's close again.
C38_Original ==
  [][(CloseAwaited /\ Len(tasks') > Len(tasks)) => wsCloses' = wsCloses]_vars

\* The entries of p and q under the keys other than key are the same.
SameApartFrom(p, q, key) ==
  /\ DOMAIN p \ {key} = DOMAIN q \ {key}
  /\ \A k \in DOMAIN p \ {key} : p[k] = q[k]

\* C39: the pending map changes only in a step that handles a frame of a
\* function call: response.output_item.added puts the entry of its item,
\* function_call_arguments.delta and .done change the entry their item id
\* already has, response.output_item.done removes the entry of its item; the
\* other entries stay as they are, and no such step is a close() or an outbound
\* call. So an entry leaves the map only with the output_item.done of its item.
C39_PendingChangedByCallFramesOnly ==
  [][pending' # pending =>
       /\ UNCHANGED <<closed, wsCloses, ws, call, sent, sentFor, outcome>>
       /\ pending' = dispatch(pending, msg').pending
       /\ \/ /\ IsFunctionCallItemFrame(msg', "response.output_item.added")
             /\ ItemKey(ItemOf(msg')) \in DOMAIN pending'
             /\ SameApartFrom(pending, pending', ItemKey(ItemOf(msg')))
          \/ /\ \/ IsFrame(msg', "response.function_call_arguments.delta")
                \/ IsFrame(msg', "response.function_call_arguments.done")
             /\ EventKey(msg'.event) \in DOMAIN pending
             /\ DOMAIN pending' = DOMAIN pending
             /\ SameApartFrom(pending, pending', EventKey(msg'.event))
          \/ /\ IsFunctionCallItemFrame(msg', "response.output_item.done")
             /\ ItemKey(ItemOf(msg')) \in DOMAIN pending
             /\ ItemKey(ItemOf(msg')) \notin DOMAIN pending'
             /\ SameApartFrom(pending, pending', ItemKey(ItemOf(msg')))]_vars

\* C39 witness: the call of item i1 was opened and never completed; a
\* response.done frame has been handled since, an outbound call has written
\* its frames, close() has closed the socket, and the entry is still there.
C39_Witness ==
  /\ "i1" \in DOMAIN pending
  /\ IsFrame(msg, "response.done")
  /\ rx = "open"
  /\ sent # <<>>
  /\ closed
  /\ wsCloses = 1

====
